---- MODULE Spec2Model ----
(***************************************************************************)
(* Verification model of servitor: the retry/correction adapter driven by  *)
(* the kernel's semantic-function loop, and the Throttle admission         *)
(* controller of the connectors.                                           *)
(*                                                                         *)
(* The specifications of this module share its variables; each leaves the  *)
(* parts of the process it does not exercise idle:                         *)
(*   SpecAdapter    - one call of a semantic function (kernel.py driver    *)
(*                    around Plain/Type/ChainOfThought adapters)           *)
(*   SpecTransport  - the same call with a failing connector               *)
(*   SpecThrottle   - several completions sharing one Throttle             *)
(*   SpecCompletion - one completion under a Throttle lease                *)
(*   SpecRegistry   - connector lookup by model name                       *)
(*   SpecConfig     - the configuration layers of a kernel                 *)
(*   SpecConvention - the suspending and the blocking drivers              *)
(*   SpecTask       - build_task and the adapters' task texts              *)
(*   SpecDecode     - util.typecast                                        *)
(*   SpecThrottles  - the Throttles the OpenAI connector keeps per key     *)
(*   SpecProgress   - callers of one Throttle under fair scheduling        *)
(*   SpecDrive      - the call of a semantic function from its origin on   *)
(*   SpecChain      - the ChainOfThought adapter on responses of lines     *)
(***************************************************************************)
EXTENDS Integers, Sequences, FiniteSets, TLC

(***************************************************************************)
(* Bounds                                                                  *)
(***************************************************************************)
\* largest retry budget explored (config "retry")
MaxRetry == 3
\* callers sharing one Throttle
NumCallers == 2
\* a Throttle is built with each of token_rate, request_rate, period and
\* concurrent either 1 or the largest value explored
MaxTokenRate == 2
MaxRequestRate == 2
MaxPeriod == 2
MaxConcurrent == 2
\* largest estimated cost of a request; largest reported completion_tokens
MaxTokens == 2
MaxOutput == 1
\* the monotonic clock stops advancing here
MaxTime == 2
\* the deltas an observed stream delivers before it ends
MaxDeltas == 2
\* the prompts one semantic function is followed for
MaxCalls == 2
\* the largest number an environment variable or an override gives an option
MaxSetting == 3
\* the completions the OpenAI connector is followed for
MaxCompletions == 3
\* the lines of a response to the chain-of-thought adapter
MaxLines == 3

VARIABLES
    \* ---- adapter / kernel driver -------------------------------------
    adapter,      \* which Adapter class runs the negotiation
    mode,         \* "sync" (_build_sync_semantic_fn) or "async"
    retry,        \* PlainAdapter.retry
    pc,           \* position of the semantic function closure
    prompt,       \* the driver's local `prompt`
    res,          \* the generator's local `res`: the lines of the response
                  \* last sent to it (none before the first send)
    i,            \* the generator's loop variable
    outcome,      \* how the semantic function ended: "pending"/"return"/"raise"
    result,       \* the value returned (or the exception raised)
    exchanges,    \* history: one [prompt, response] entry per provider exchange
    trace,        \* history: the events of the call, in order
    \* ---- Throttle ---------------------------------------------------
    token_rate,         \* Throttle.token_rate
    request_rate,       \* Throttle.request_rate
    period,             \* Throttle.period
    concurrent,         \* the cap the semaphore was built with
    token_allowance,    \* Throttle.token_allowance, in units of 1/period
    request_allowance,  \* Throttle.request_allowance, in units of 1/period
    before,             \* Throttle.before
    sem,                \* value of the asyncio.Semaphore Throttle.concurrent
    now,                \* time.monotonic()
    cpc,                \* per caller: position inside its completion
    path,               \* per caller: "alock" (await) or "lock" (blocking)
    tokens,             \* per caller: OpenAICompletion.tokens, the estimate
    blocker,            \* the caller whose blocking call occupies the thread
    usage,              \* result['usage'] of the request that ended last
                        \* (its prompt_tokens are the request's estimate)
    stream,             \* per caller: whether the completion is consumed as
                        \* a stream of deltas (stream=True)
    admitted,           \* history: when can_proceed last debited the buckets
                        \* and the request_allowance that debit left
    \* ---- one completion, observed ------------------------------------
    log,                \* history: what the observed completion did, in order
    raised,             \* history: the provider failure that ended a
                        \* completion last, and the exception its consumer got
    \* ---- connector registry, Kernel.__call__ -------------------------
    installed,          \* the provider packages that can be imported
    registry,           \* Connector.registry: its items, in dict order
    modules,            \* the connector modules in sys.modules
    inits,              \* history: per provider, the times its module body ran
    catalog,            \* per provider: the cached model_list, once fetched
    fetched,            \* history: per provider, the catalog fetches cached
    lookup,             \* history: the last Connector.find, who it asked
                        \* and how it ended
    sf,                 \* the semantic function Kernel.__call__ last made,
                        \* and what its calls have done
    \* ---- configuration layers (kernel.py) ----------------------------
    environ,            \* os.environ, as far as the schema's names go
    kernel,             \* the kernel: whether it was made, and its config
    fn,                 \* the semantic function Kernel.__call__ built: its
                        \* adapter's retry and the configuration it closes over
    reached,            \* history: what the adapter and the connector were
                        \* given when the function was called
    \* ---- the two calling conventions --------------------------------
    provider,           \* the connector the semantic function was built with
    twin,               \* history: the suspending call the blocking call is
                        \* compared with
    \* ---- build_task and the adapters' task ---------------------------
    op,                 \* the origin of a semantic function and its arguments
    built,              \* the task an adapter built from it
    \* ---- typecast ----------------------------------------------------
    dval,               \* the value handed to typecast
    dtype,              \* the target handed to typecast
    decoded,            \* what typecast made of them
    \* ---- the Throttles of the OpenAI connector ----------------------
    hashes,             \* hash(): the integer of each API key
    throttles,          \* OpenAIConnector.throttle, by hash value
    serial,             \* history: the Throttles constructed so far
    calls               \* history: the completions made, each with its
                        \* key, its limits and the Throttle it was given

avars == <<adapter, mode, retry, pc, prompt, res, i, outcome, result,
           exchanges, trace>>

tvars == <<token_rate, request_rate, period, concurrent, token_allowance,
           request_allowance, before, sem, now, cpc, path, tokens, blocker,
           usage, stream, admitted>>

ovars == <<log, raised>>

rvars == <<installed, registry, modules, inits, catalog, fetched, lookup, sf>>

cvars == <<environ, kernel, fn, reached>>

kvars == <<provider, twin>>

bvars == <<op, built>>

dvars == <<dval, dtype, decoded>>

hvars == <<hashes, throttles, serial, calls>>

pvars == <<cvars, kvars, bvars, dvars>>

vars == <<avars, tvars, ovars, rvars, pvars, hvars>>

(***************************************************************************)
(* Responses of the remote model.  A response is its sequence of lines;    *)
(* the lines are representative texts for an operation declared `-> int`.  *)
(***************************************************************************)
Responses == { <<"42">>, <<"return 42">>, <<"[1">>, <<"[1]">>, <<"thought">>,
               <<"return(42)">>, <<"thought", "return(42)">>,
               <<"return(42)", "thought">>, <<"thought", "return([1)">> }

None == [kind |-> "None"]

\* a value handed back by `return`
Value(v) == [kind |-> "value", value |-> v]

Ok(v) == [ok |-> TRUE, value |-> v]
Err(e) == [ok |-> FALSE, error |-> e]

\* hjson.loads on one line of text: a number, a list, a quoteless string,
\* or a decode error for the unterminated list.
hjson_loads(text) ==
    CASE text = "42" -> Ok([type |-> "int", v |-> "42"])
      [] text = "[1]" -> Ok([type |-> "list", v |-> "[1]"])
      [] text = "[1" -> Err("HjsonDecodeError")
      [] OTHER -> Ok([type |-> "str", v |-> text])

\* typecast(value, int): util.typecast with target int
typecast(value) ==
    CASE value.type = "int" -> Ok(value)
      [] value.type = "str" -> Err("ValueError")
      [] OTHER -> Err("TypeError")

\* the "return " prefix hack of TypeAdapter.parse
StripReturn(text) == IF text = "return 42" THEN "42" ELSE text

\* TypeAdapter.parse on a text given as its lines: more than one line of
\* these texts is not one HJSON value ("Extra data").
TypeParse(lines) ==
    IF Len(lines) # 1 THEN Err("HjsonDecodeError")
    ELSE LET loaded == hjson_loads(StripReturn(lines[1]))
         IN IF loaded.ok THEN typecast(loaded.value) ELSE loaded

\* the `return(...)` marker regex of ChainOfThoughtAdapter.parse
HasMarker(line) == line \in {"return(42)", "return([1)"}
MarkerPayload(line) == IF line = "return(42)" THEN "42" ELSE "[1"

\* mutant: a response without the marker is decoded as a whole, as
\* TypeAdapter would decode it
ChainParseUnmarked(lines) ==
    IF Len(lines) = 0 THEN Err("ValueError")
    ELSE IF HasMarker(lines[Len(lines)])
    THEN LET inner == TypeParse(<<MarkerPayload(lines[Len(lines)])>>)
         IN IF inner.ok
            THEN Ok([thoughts |-> SubSeq(lines, 1, Len(lines) - 1),
                     answer |-> inner.value])
            ELSE inner
    ELSE TypeParse(lines)

\* mutant: the marker is searched in every line, the last one that has it
\* is the answer and the other lines are the thoughts
ChainParseAnyLine(lines) ==
    LET marked == {j \in 1..Len(lines) : HasMarker(lines[j])}
    IN IF marked = {} THEN Err("ValueError")
       ELSE LET k == CHOOSE j \in marked : \A m \in marked : m <= j
                inner == TypeParse(<<MarkerPayload(lines[k])>>)
            IN IF inner.ok
               THEN Ok([thoughts |-> SubSeq(lines, 1, k - 1)
                                       \o SubSeq(lines, k + 1, Len(lines)),
                        answer |-> inner.value])
               ELSE inner

\* ChainOfThoughtAdapter.parse: the last line is searched for the marker
ChainParse(lines) ==
    IF Len(lines) = 0 THEN Err("ValueError")
    ELSE LET answer == lines[Len(lines)]
             thoughts == SubSeq(lines, 1, Len(lines) - 1)
         IN IF HasMarker(answer)
            THEN LET inner == TypeParse(<<MarkerPayload(answer)>>)
                 IN IF inner.ok
                    THEN Ok([thoughts |-> thoughts, answer |-> inner.value])
                    ELSE inner
            ELSE Err("ValueError")

\* self.parse(origin, res), dispatched on the adapter class
parse(a, r) ==
    CASE a = "plain" -> Ok(r)
      [] a = "type" -> TypeParse(r)
      [] a = "chain" -> ChainParse(r)

\* mutant: a handler that catches ValueError (and its subclasses) only
CaughtValueErrorOnly(e) == e \in {"HjsonDecodeError", "ValueError"}

\* `except Exception`: which raised errors the handler catches
Caught(e) == e \in {"HjsonDecodeError", "ValueError", "TypeError"}

\* self.prompt(origin, task, args, kwargs)
InitialPrompt == [kind |-> "prompt"]

\* self.fix(task, res, e): the fix prompt embeds the response and the error
fix(r, e) == [kind |-> "fix", response |-> r, error |-> e]

\* mutant: a loop that tests `prompt is not None`
TruthyUnlessNone(p) == p # None

\* truthiness of a prompt in `while prompt:`: None and the empty string
\* are false
Truthy(p) == p # None /\ (p.kind = "text" => p.lines # <<>>)

\* mutants of the loop bound: one pass short, one pass too many, unbounded
LoopContinuesShort(idx, n) == idx + 1 < n
LoopContinuesLong(idx, n) == idx <= n
LoopContinuesForever(idx, n) == TRUE

\* `for i in range(self.retry)`: whether the loop has a pass left for idx
LoopContinues(idx, n) == idx < n

(***************************************************************************)
(* Throttle (connectors/connector.py).  The allowances are real numbers in *)
(* the program; the model holds them as integers counting 1/period of a    *)
(* token (of a request), which keeps dt * rate / period exact.             *)
(***************************************************************************)
Callers == 1..NumCallers

Min(a, b) == IF a <= b THEN a ELSE b

\* a count of tokens or requests, in the unit of the allowances
Units(n) == n * period

\* Throttle.__init__: full buckets, the clock read once, a free semaphore
ThrottleConstructed ==
    /\ token_allowance = Units(token_rate)
    /\ request_allowance = Units(request_rate)
    /\ before = now
    /\ sem = concurrent
    /\ cpc = [c \in Callers |-> "idle"]
    /\ path = [c \in Callers |-> "alock"]
    /\ tokens = [c \in Callers |-> 0]
    /\ blocker = 0
    /\ usage = [completion_tokens |-> 0]
    /\ stream = [c \in Callers |-> FALSE]
    /\ admitted = [at |-> now, left |-> Units(request_rate)]

\* the providers, in the order connectors/__init__.py registers them
ProviderNames == <<"openai", "gpt4all">>

\* the lazy loader registered under a name, and the connector its module
\* registers under the same name
Loader(name) == IF name = "openai" THEN "_openai_loader" ELSE "_gpt4all_loader"

Connector(name) == IF name = "openai" THEN "OpenAIConnector" ELSE "GPT4AllConnector"

\* a model name is the sequence of its parts, so that a prefix or a suffix
\* can be stripped from it; config['model'] can also be None, or missing
Str(parts) == [given |-> "str", parts |-> parts]

ConfigModels ==
    {[given |-> "absent", parts |-> <<>>], [given |-> "None", parts |-> <<>>],
     Str(<<"gpt-4">>),
     Str(<<"ggml-", "gpt4all-j-v1.3-groovy", ".bin">>),
     Str(<<"my-model">>)}

\* the configurations a lookup is made with
Configs == [model : ConfigModels, openai_api_key : {"None", "sk-key"}]

\* how a find or a supports ended; kind "none": it was not called
Outcome(kind, value, model) == [kind |-> kind, value |-> value, model |-> model]

NoOutcome == Outcome("none", "", [given |-> "absent", parts |-> <<>>])

\* no lookup has been made
NoLookup ==
    [config |-> [model |-> NoOutcome.model, openai_api_key |-> "None"],
     asked |-> <<>>, outcome |-> NoOutcome]

\* no semantic function has been made
NoFunction ==
    [state |-> "none", found |-> NoOutcome, lookups |-> 0, prompts |-> 0,
     leases |-> 0, requests |-> 0]

\* the registry after `import servitor`: the two lazy loaders, no connector
\* module imported, no catalog fetched
RegistryLoaded ==
    /\ registry = [j \in 1..Len(ProviderNames) |->
                     [name |-> ProviderNames[j], cls |-> Loader(ProviderNames[j])]]
    /\ modules = {}
    /\ inits = [name \in {"openai", "gpt4all"} |-> 0]
    /\ catalog = [name \in {"openai", "gpt4all"} |-> [set |-> FALSE, ids |-> {}]]
    /\ fetched = [name \in {"openai", "gpt4all"} |-> 0]
    /\ lookup = NoLookup
    /\ sf = NoFunction

\* a process that makes no lookup
RegistryIdle ==
    /\ installed = {"openai", "gpt4all"}
    /\ RegistryLoaded

\* what openai.error the provider call can raise: the three that
\* transmute_errors names, and APIError for every other one
Signals == {"RateLimitError", "ServiceUnavailableError", "TryAgain",
            "APIError"}

\* no completion has failed
NoFailure ==
    [path |-> "alock", stream |-> FALSE, signal |-> "none", error |-> "none"]

\* nothing has been observed of any completion
NotObserved ==
    /\ log = <<>>
    /\ raised = NoFailure

\* the options of CONFIG_SCHEMA the model follows: one clamped on both
\* sides, one clamped from 0, one clamped from 1
Options == {"temperature", "retry", "concurrent"}

\* the value a layer gives an option, or the option's absence from the layer
Defined(n) == [defined |-> TRUE, n |-> n]

Undefined == [defined |-> FALSE, n |-> 0]

\* a layer that defines nothing
NoLayer == [o \in Options |-> Undefined]

\* no kernel was constructed, and the config of the DefaultKernel `semantic`
\* is not computed until it is used
KernelUnused ==
    [cached |-> FALSE, config |-> NoLayer, made |-> "none",
     overrides |-> NoLayer, own |-> NoLayer]

\* no semantic function has been built from a configuration
Unbound ==
    [state |-> "none", adapter |-> "none", retry |-> 0, config |-> NoLayer,
     site |-> NoLayer, kwargs |-> NoLayer]

\* nothing has reached an adapter or a connector
NotReached == [called |-> FALSE, retry |-> 0, config |-> NoLayer]

\* a process that builds no semantic function from a configuration
ConfigIdle ==
    /\ environ = [o \in Options |-> [given |-> "unset", n |-> 0]]
    /\ kernel = KernelUnused
    /\ fn = Unbound
    /\ reached = NotReached

\* no suspending call has been recorded for comparison
NoTwin ==
    [taken |-> FALSE, exchanges |-> <<>>, trace |-> <<>>,
     outcome |-> "pending", result |-> None]

\* a process in which the two conventions are not compared
ConventionIdle ==
    /\ provider = "gpt4all"
    /\ twin = NoTwin

\* a text is the sequence of its lines, each with its indentation; a value
\* that may be a text or None says which it is
Line(indent, text) == [indent |-> indent, text |-> text]

Text(lines) == [t |-> "str", lines |-> lines]

NoText == [t |-> "NoneType", lines |-> <<>>]

\* the arguments an operation is called with
Args == {"a", "b"}

\* no origin was given to an adapter
NoOrigin ==
    [kind |-> "str", text |-> NoText, body |-> [x \in Args |-> NoText],
     doc |-> NoText, args |-> "a", adapter |-> "task"]

\* no task has been built
NotBuilt == [done |-> FALSE, form |-> "none", description |-> NoText]

\* a process in which no adapter builds a task
TaskIdle ==
    /\ op = NoOrigin
    /\ built = NotBuilt

\* a Python value: its type, its number in tenths (numbers and booleans),
\* its characters (strings), its items (lists, tuples, dicts, dataclasses)
Py(t, n, s, items) == [t |-> t, n |-> n, s |-> s, items |-> items]

PyNone == Py("NoneType", 0, <<>>, <<>>)

\* a type annotation: a class, or a generic alias with its arguments
Type(k) == [k |-> k, args |-> <<>>]

Generic(k, args) == [k |-> k, args |-> args]

\* typecast has not been called
NotDecoded == [state |-> "none", value |-> PyNone, error |-> ""]

\* a process in which nothing is decoded
DecodeIdle ==
    /\ dval = PyNone
    /\ dtype = Type("Any")
    /\ decoded = NotDecoded

\* the API keys of the calls, and the integers hash() sends them to
Credentials == {"sk-a", "sk-b"}

HashValues == {1, 2}

\* the limits a configuration asks for: the tightest and the loosest
Limits ==
    {[request_rate |-> 1, token_rate |-> 1, period |-> 1, concurrent |-> 1],
     [request_rate |-> MaxRequestRate, token_rate |-> MaxTokenRate,
      period |-> MaxPeriod, concurrent |-> MaxConcurrent]}

ThrottleInit_of(made, id, limits) ==
    [made |-> made, id |-> id, limits |-> limits,
     token_allowance |-> limits.token_rate,
     request_allowance |-> limits.request_rate]

\* the Throttle that Throttle(request_rate, token_rate, period, concurrent)
\* constructs, the id-th of the process: full buckets
Throttle(limits, id) == ThrottleInit_of(TRUE, id, limits)

\* the dict has nothing under a hash value
NoThrottle ==
    ThrottleInit_of(FALSE, 0,
        [request_rate |-> 0, token_rate |-> 0, period |-> 0, concurrent |-> 0])

\* a process in which the OpenAI connector is given no completion to make
ThrottlesIdle ==
    /\ hashes = [key \in Credentials |-> 1]
    /\ throttles = [h \in HashValues |-> NoThrottle]
    /\ serial = 0
    /\ calls = <<>>

\* the parts of the process that the specifications of the negotiation,
\* the Throttle and the registry do not exercise
RestIdle ==
    /\ ConfigIdle
    /\ ConventionIdle
    /\ TaskIdle
    /\ DecodeIdle
    /\ ThrottlesIdle

\* the Throttle of a process in which no completion is requested
ThrottleIdle ==
    /\ token_rate = 1
    /\ request_rate = 1
    /\ period = 1
    /\ concurrent = 1
    /\ now = 0
    /\ ThrottleConstructed
    /\ NotObserved

(***************************************************************************)
(* The semantic function closure (kernel.py) driving the adapter generator *)
(***************************************************************************)
\* a semantic function before it is called
NotCalled ==
    /\ pc = "idle"
    /\ prompt = None
    /\ res = <<>>
    /\ i = 0
    /\ outcome = "pending"
    /\ result = None
    /\ exchanges = <<>>
    /\ trace = <<>>

AdapterInit ==
    /\ adapter \in {"plain", "type", "chain"}
    /\ mode \in {"sync", "async"}
    /\ retry \in 0..MaxRetry
    /\ NotCalled
    /\ ThrottleIdle
    /\ RegistryIdle
    /\ RestIdle

\* task = adapter(origin, ...); prompt = next(task): the generator runs to
\* its first yield
Call ==
    /\ pc = "idle"
    /\ prompt' = InitialPrompt
    /\ pc' = IF Truthy(InitialPrompt) THEN "request" ELSE "done"
    /\ trace' = Append(trace, "prompt")
    /\ UNCHANGED <<adapter, mode, retry, res, i, outcome, result, exchanges>>
    /\ UNCHANGED <<tvars, ovars, rvars, pvars, hvars>>

\* completion = connector.complete(prompt, config)
Request ==
    /\ pc = "request"
    /\ pc' = "await"
    /\ trace' = Append(trace, "request")
    /\ UNCHANGED <<adapter, mode, retry, prompt, res, i, outcome, result,
                   exchanges>>
    /\ UNCHANGED <<tvars, ovars, rvars, pvars, hvars>>

\* mutant: the driver drops the response and asks again with the same prompt
RespondDropped(r) ==
    /\ pc = "await"
    /\ pc' = "request"
    /\ exchanges' = Append(exchanges, [prompt |-> prompt, response |-> r])
    /\ trace' = Append(trace, "response")
    /\ UNCHANGED <<adapter, mode, retry, prompt, res, i, outcome, result>>
    /\ UNCHANGED <<tvars, ovars, rvars, pvars, hvars>>

\* completion.sync() / await completion: the provider's raw text arrives
Respond(r) ==
    /\ pc = "await"
    /\ pc' = "send"
    /\ exchanges' = Append(exchanges, [prompt |-> prompt, response |-> r])
    /\ trace' = Append(trace, "response")
    /\ UNCHANGED <<adapter, mode, retry, prompt, res, i, outcome, result>>
    /\ UNCHANGED <<tvars, ovars, rvars, pvars, hvars>>

\* task.send(response): the generator resumes at its yield, binds res and
\* tests the loop; when range(retry) is used up it falls off the end and
\* the closure returns StopIteration.value, which is None
Send ==
    /\ pc = "send"
    /\ res' = exchanges[Len(exchanges)].response
    /\ IF LoopContinues(i, retry)
       THEN /\ pc' = "parse"
            /\ UNCHANGED <<outcome, result>>
       ELSE /\ pc' = "done"
            /\ outcome' = "return"
            /\ result' = None
    /\ trace' = Append(trace, "send")
    /\ UNCHANGED <<adapter, mode, retry, prompt, i, exchanges>>
    /\ UNCHANGED <<tvars, ovars, rvars, pvars, hvars>>

\* one pass of the loop body: try: return self.parse(origin, res)
\* except Exception as e: res = yield self.fix(task, res, e)
Parse ==
    /\ pc = "parse"
    /\ LET p == parse(adapter, res)
       IN IF p.ok
          THEN /\ pc' = "done"
               /\ outcome' = "return"
               /\ result' = Value(p.value)
               /\ trace' = Append(trace, "decode")
               /\ UNCHANGED <<prompt, i>>
          ELSE IF Caught(p.error)
          THEN /\ prompt' = fix(res, p.error)
               /\ pc' = IF Truthy(fix(res, p.error)) THEN "request" ELSE "done"
               /\ i' = i + 1
               /\ trace' = trace \o <<"decode_failed", "fix">>
               /\ UNCHANGED <<outcome, result>>
          ELSE /\ pc' = "done"
               /\ outcome' = "raise"
               /\ result' = [kind |-> "error", error |-> p.error]
               /\ trace' = trace \o <<"decode_failed", "raise">>
               /\ UNCHANGED <<prompt, i>>
    /\ UNCHANGED <<adapter, mode, retry, res, exchanges>>
    /\ UNCHANGED <<tvars, ovars, rvars, pvars, hvars>>

\* mutant: the transport error is taken for a response that did not decode
TransportErrorAbsorbed(e) ==
    /\ pc = "await"
    /\ pc' = "request"
    /\ i' = i + 1
    /\ prompt' = fix(res, e)
    /\ trace' = trace \o <<"transport_error", "fix">>
    /\ UNCHANGED <<adapter, mode, retry, res, outcome, result, exchanges>>
    /\ UNCHANGED <<tvars, ovars, rvars, pvars, hvars>>

\* completion.sync() / await completion raises ThrottleError or BusyError:
\* the argument of task.send is never evaluated, the generator is not
\* resumed, and the closure, which catches StopIteration only, lets the
\* exception out
TransportError(e) ==
    /\ pc = "await"
    /\ pc' = "done"
    /\ outcome' = "raise"
    /\ result' = [kind |-> "error", error |-> e]
    /\ trace' = trace \o <<"transport_error", "raise">>
    /\ UNCHANGED <<adapter, mode, retry, prompt, res, i, exchanges>>
    /\ UNCHANGED <<tvars, ovars, rvars, pvars, hvars>>

AdapterNext ==
    \/ Call
    \/ Request
    \/ \E r \in Responses : Respond(r)
    \/ Send
    \/ Parse

SpecAdapter == AdapterInit /\ [][AdapterNext]_vars

\* every step of a call is eventually taken: the provider answers each request
FairSpecAdapter == SpecAdapter /\ WF_vars(AdapterNext)

\* the call when obtaining a response can also fail at the transport
TransportNext ==
    \/ AdapterNext
    \/ \E e \in {"ThrottleError", "BusyError"} : TransportError(e)

SpecTransport == AdapterInit /\ [][TransportNext]_vars

(***************************************************************************)
(* The chain-of-thought adapter on responses of several lines              *)
(***************************************************************************)
\* the lines of a response: a thought, the marker around a payload that
\* decodes, the marker around one that does not
ChainLines == {"thought", "return(42)", "return([1)"}

\* the responses: res.splitlines() of a text of up to MaxLines lines, the
\* empty text included
ChainResponses == UNION {[1..n -> ChainLines] : n \in 0..MaxLines}

\* a ChainOfThoughtAdapter that parses one response and, when that fails,
\* asks once for a fix
ChainInit ==
    /\ adapter = "chain"
    /\ mode \in {"sync", "async"}
    /\ retry = 1
    /\ NotCalled
    /\ ThrottleIdle
    /\ RegistryIdle
    /\ RestIdle

ChainNext ==
    \/ Call
    \/ Request
    \/ \E r \in ChainResponses : Respond(r)
    \/ Send
    \/ Parse

SpecChain == ChainInit /\ [][ChainNext]_vars

(***************************************************************************)
(* Completions sharing one Throttle (connectors/openai.py)                 *)
(***************************************************************************)
\* mutant: replenishment that ignores the bucket's rate
ReplenishedSlow(allowance, rate, dt) == Min(Units(rate), allowance + dt)

\* mutant: replenishment in whole units only, the rest of the elapsed time
\* dropped
ReplenishedWhole(allowance, rate, dt) ==
    Min(Units(rate), allowance + Units((dt * rate) \div period))

\* update_allowance: one bucket after dt time units, clamped to its rate
Replenished(allowance, rate, dt) == Min(Units(rate), allowance + dt * rate)

\* mutant: admission on either bucket being sufficient
AdmissibleEither(ta, ra, n) == ta >= Units(n) \/ ra >= Units(1)

\* mutant: admission that tests the token bucket alone
AdmissibleTokensOnly(ta, ra, n) == ta >= Units(n)

\* the test of can_proceed on the replenished allowances
Admissible(ta, ra, n) == ta >= Units(n) /\ ra >= Units(1)

\* mutant: output without the clamp to token_rate
outputUnclamped(ta, n) == ta + Units(n)

\* Throttle.output: the new token_allowance
output(ta, n) == Min(Units(token_rate), ta + Units(n))

\* the estimated costs of the requests: the cheapest and the dearest
Costs == {1, MaxTokens}

\* whether caller c may run: a blocking call keeps every other caller of the
\* thread from running until it returns
Runnable(c) == blocker \in {0, c}

ThrottleInit ==
    /\ adapter = "plain"
    /\ mode = "sync"
    /\ retry = 0
    /\ NotCalled
    /\ token_rate \in {1, MaxTokenRate}
    /\ request_rate \in {1, MaxRequestRate}
    /\ period \in {1, MaxPeriod}
    /\ concurrent \in {1, MaxConcurrent}
    /\ now = 0
    /\ ThrottleConstructed
    /\ NotObserved
    /\ RegistryIdle
    /\ RestIdle

\* time.monotonic() advances
Tick ==
    /\ now < MaxTime
    /\ now' = now + 1
    /\ UNCHANGED <<token_rate, request_rate, period, concurrent,
                   token_allowance, request_allowance, before, sem, cpc, path,
                   tokens, blocker, usage, stream, admitted>>
    /\ UNCHANGED <<avars, rvars, pvars, hvars>>

\* OpenAICompletion.__init__ estimates the cost; __await__ then enters
\* `async with throttle.alock(tokens)`
Await(c, n) ==
    /\ cpc[c] = "idle"
    /\ Runnable(c)
    /\ cpc' = [cpc EXCEPT ![c] = "acquire"]
    /\ path' = [path EXCEPT ![c] = "alock"]
    /\ tokens' = [tokens EXCEPT ![c] = n]
    /\ stream' = [stream EXCEPT ![c] = FALSE]
    /\ UNCHANGED <<token_rate, request_rate, period, concurrent,
                   token_allowance, request_allowance, before, sem, now,
                   blocker, usage, admitted>>
    /\ UNCHANGED <<avars, rvars, pvars, hvars>>

\* OpenAICompletion.__init__ estimates the cost; __call__ then enters
\* `with throttle.lock(tokens)`, which takes no semaphore
BlockingCall(c, n) ==
    /\ cpc[c] = "idle"
    /\ Runnable(c)
    /\ cpc' = [cpc EXCEPT ![c] = "poll"]
    /\ path' = [path EXCEPT ![c] = "lock"]
    /\ tokens' = [tokens EXCEPT ![c] = n]
    /\ blocker' = c
    /\ stream' = [stream EXCEPT ![c] = FALSE]
    /\ UNCHANGED <<token_rate, request_rate, period, concurrent,
                   token_allowance, request_allowance, before, sem, now,
                   usage, admitted>>
    /\ UNCHANGED <<avars, rvars, pvars, hvars>>

\* alock: `async with self.concurrent` obtains a slot of the semaphore
Acquire(c) ==
    /\ cpc[c] = "acquire"
    /\ Runnable(c)
    /\ sem > 0
    /\ sem' = sem - 1
    /\ cpc' = [cpc EXCEPT ![c] = "poll"]
    /\ UNCHANGED <<token_rate, request_rate, period, concurrent,
                   token_allowance, request_allowance, before, now, path,
                   tokens, blocker, usage, stream, admitted>>
    /\ UNCHANGED <<avars, rvars, pvars, hvars>>

\* mutant: an admission check whose debit is lost, as when another check
\* runs between its test and its debit
PollUndebited(c) ==
    /\ cpc[c] = "poll"
    /\ Runnable(c)
    /\ LET dt == now - before
           ta == Replenished(token_allowance, token_rate, dt)
           ra == Replenished(request_allowance, request_rate, dt)
       IN /\ before' = now
          /\ token_allowance' = ta
          /\ request_allowance' = ra
          /\ IF Admissible(ta, ra, tokens[c])
             THEN /\ cpc' = [cpc EXCEPT ![c] = "flight"]
                  /\ admitted' = [at |-> now, left |-> ra - Units(1)]
             ELSE /\ cpc' = cpc
                  /\ admitted' = admitted
    /\ UNCHANGED <<token_rate, request_rate, period, concurrent, sem, now,
                   path, tokens, blocker, usage, stream>>
    /\ UNCHANGED <<avars, rvars, pvars, hvars>>

\* one pass of `while not self.can_proceed(tokens): sleep(self.wait)`:
\* update_allowance, then the test and the debit; a refused caller sleeps
\* and polls again
Poll(c) ==
    /\ cpc[c] = "poll"
    /\ Runnable(c)
    /\ LET dt == now - before
           ta == Replenished(token_allowance, token_rate, dt)
           ra == Replenished(request_allowance, request_rate, dt)
       IN /\ before' = now
          /\ IF Admissible(ta, ra, tokens[c])
             THEN /\ token_allowance' = ta - Units(tokens[c])
                  /\ request_allowance' = ra - Units(1)
                  /\ cpc' = [cpc EXCEPT ![c] = "flight"]
                  /\ admitted' = [at |-> now, left |-> ra - Units(1)]
             ELSE /\ token_allowance' = ta
                  /\ request_allowance' = ra
                  /\ cpc' = cpc
                  /\ admitted' = admitted
    /\ UNCHANGED <<token_rate, request_rate, period, concurrent, sem, now,
                   path, tokens, blocker, usage, stream>>
    /\ UNCHANGED <<avars, rvars, pvars, hvars>>

\* the provider's result arrives: unpack_content calls
\* throttle.output(result['usage']['completion_tokens']), then the with
\* block ends, which releases the semaphore on the alock path
Finish(c, n) ==
    /\ cpc[c] = "flight"
    /\ ~stream[c]
    /\ Runnable(c)
    /\ usage' = [completion_tokens |-> n]
    /\ token_allowance' = output(token_allowance, n)
    /\ sem' = IF path[c] = "alock" THEN sem + 1 ELSE sem
    /\ blocker' = IF path[c] = "lock" THEN 0 ELSE blocker
    /\ cpc' = [cpc EXCEPT ![c] = "idle"]
    /\ path' = [path EXCEPT ![c] = "alock"]
    /\ tokens' = [tokens EXCEPT ![c] = 0]
    /\ UNCHANGED <<token_rate, request_rate, period, concurrent,
                   request_allowance, before, now, stream, admitted>>
    /\ UNCHANGED <<avars, rvars, pvars, hvars>>

\* mutant: only the rate-limit signal is translated
transmuteRateLimitOnly(signal) ==
    IF signal = "RateLimitError" THEN "ThrottleError" ELSE signal

\* transmute_errors: the exception that leaves the with block when the
\* provider call raised signal
transmute_errors(signal) ==
    CASE signal = "RateLimitError" -> "ThrottleError"
      [] signal \in {"ServiceUnavailableError", "TryAgain"} -> "BusyError"
      [] OTHER -> signal

\* mutant: a failed request that keeps its slot of the semaphore
HeldAfterFailure(c) == FALSE

\* whether the end of c's completion gives a slot back: the exit of
\* `async with self.concurrent`, which the caller entered at Acquire
ReleasesSlot(c) == path[c] = "alock" /\ cpc[c] \in {"poll", "flight"}

\* mutant: a failure that gives back what the admission debited
FailRefunded(c, signal) ==
    /\ cpc[c] = "flight"
    /\ Runnable(c)
    /\ token_allowance' =
          Min(Units(token_rate), token_allowance + Units(tokens[c]))
    /\ request_allowance' =
          Min(Units(request_rate), request_allowance + Units(1))
    /\ sem' = IF ReleasesSlot(c) THEN sem + 1 ELSE sem
    /\ blocker' = IF path[c] = "lock" THEN 0 ELSE blocker
    /\ cpc' = [cpc EXCEPT ![c] = "idle"]
    /\ path' = [path EXCEPT ![c] = "alock"]
    /\ tokens' = [tokens EXCEPT ![c] = 0]
    /\ stream' = [stream EXCEPT ![c] = FALSE]
    /\ UNCHANGED <<token_rate, request_rate, period, concurrent, before, now,
                   usage, admitted>>
    /\ UNCHANGED <<avars, rvars, pvars, hvars>>

\* the provider call raises: the exception leaves `with throttle.lock` or
\* `async with throttle.alock`, then transmute_errors; output is not called
Fail(c, signal) ==
    /\ cpc[c] = "flight"
    /\ Runnable(c)
    /\ sem' = IF ReleasesSlot(c) THEN sem + 1 ELSE sem
    /\ blocker' = IF path[c] = "lock" THEN 0 ELSE blocker
    /\ cpc' = [cpc EXCEPT ![c] = "idle"]
    /\ path' = [path EXCEPT ![c] = "alock"]
    /\ tokens' = [tokens EXCEPT ![c] = 0]
    /\ stream' = [stream EXCEPT ![c] = FALSE]
    /\ UNCHANGED <<token_rate, request_rate, period, concurrent,
                   token_allowance, request_allowance, before, now, usage,
                   admitted>>
    /\ UNCHANGED <<avars, rvars, pvars, hvars>>

\* the caller abandons the completion where it is suspended: its task is
\* cancelled at `async with self.concurrent`, at asyncio.sleep or at the
\* awaited request, or its stream is closed at `yield delta`; the exception
\* leaves the with blocks.  A blocking call is not suspended anywhere.
Cancel(c) ==
    /\ cpc[c] # "idle"
    /\ path[c] = "alock" \/ (stream[c] /\ cpc[c] = "flight" /\ blocker = 0)
    /\ Runnable(c)
    /\ sem' = IF ReleasesSlot(c) THEN sem + 1 ELSE sem
    /\ cpc' = [cpc EXCEPT ![c] = "idle"]
    /\ path' = [path EXCEPT ![c] = "alock"]
    /\ tokens' = [tokens EXCEPT ![c] = 0]
    /\ stream' = [stream EXCEPT ![c] = FALSE]
    /\ UNCHANGED <<token_rate, request_rate, period, concurrent,
                   token_allowance, request_allowance, before, now, blocker,
                   usage, admitted>>
    /\ UNCHANGED <<avars, rvars, pvars, hvars>>

ThrottleNext ==
    \/ Tick /\ UNCHANGED ovars
    \/ \E c \in Callers, n \in Costs : Await(c, n) /\ UNCHANGED ovars
    \/ \E c \in Callers, n \in Costs : BlockingCall(c, n) /\ UNCHANGED ovars
    \/ \E c \in Callers : Acquire(c) /\ UNCHANGED ovars
    \/ \E c \in Callers : Poll(c) /\ UNCHANGED ovars
    \/ \E c \in Callers, n \in 0..MaxOutput : Finish(c, n) /\ UNCHANGED ovars
    \/ \E c \in Callers, signal \in Signals :
          Fail(c, signal) /\ UNCHANGED ovars
    \/ \E c \in Callers : Cancel(c) /\ UNCHANGED ovars

SpecThrottle == ThrottleInit /\ [][ThrottleNext]_vars

(***************************************************************************)
(* One completion at a time, on each of the four ways an OpenAICompletion  *)
(* is consumed, with what it does written to the log                       *)
(***************************************************************************)
\* the caller whose completions are observed
Client == 1

\* __aiter__: `async with throttle.alock(tokens)` around a streamed request
AsyncStream(c, n) ==
    /\ cpc[c] = "idle"
    /\ Runnable(c)
    /\ cpc' = [cpc EXCEPT ![c] = "acquire"]
    /\ path' = [path EXCEPT ![c] = "alock"]
    /\ tokens' = [tokens EXCEPT ![c] = n]
    /\ stream' = [stream EXCEPT ![c] = TRUE]
    /\ UNCHANGED <<token_rate, request_rate, period, concurrent,
                   token_allowance, request_allowance, before, sem, now,
                   blocker, usage, admitted>>
    /\ UNCHANGED <<avars, rvars, pvars, hvars>>

\* __iter__: `with throttle.lock(tokens)` around a streamed request; the
\* generator runs without suspending up to its first yield
BlockingStream(c, n) ==
    /\ cpc[c] = "idle"
    /\ Runnable(c)
    /\ cpc' = [cpc EXCEPT ![c] = "poll"]
    /\ path' = [path EXCEPT ![c] = "lock"]
    /\ tokens' = [tokens EXCEPT ![c] = n]
    /\ stream' = [stream EXCEPT ![c] = TRUE]
    /\ blocker' = c
    /\ UNCHANGED <<token_rate, request_rate, period, concurrent,
                   token_allowance, request_allowance, before, sem, now,
                   usage, admitted>>
    /\ UNCHANGED <<avars, rvars, pvars, hvars>>

\* the stream delivers an item that does not end it: output(1), then
\* `yield delta` hands the delta and the thread to the consumer
Delta(c) ==
    /\ cpc[c] = "flight"
    /\ stream[c]
    /\ Runnable(c)
    /\ token_allowance' = output(token_allowance, 1)
    /\ blocker' = IF path[c] = "lock" THEN 0 ELSE blocker
    /\ UNCHANGED <<token_rate, request_rate, period, concurrent,
                   request_allowance, before, sem, now, cpc, path, tokens,
                   usage, stream, admitted>>
    /\ UNCHANGED <<avars, rvars, pvars, hvars>>

\* the stream ends (its last item, or no more items): the loop is left
\* and the with blocks end; output is not called
StreamEnd(c) ==
    /\ cpc[c] = "flight"
    /\ stream[c]
    /\ Runnable(c)
    /\ sem' = IF ReleasesSlot(c) THEN sem + 1 ELSE sem
    /\ blocker' = IF path[c] = "lock" THEN 0 ELSE blocker
    /\ cpc' = [cpc EXCEPT ![c] = "idle"]
    /\ path' = [path EXCEPT ![c] = "alock"]
    /\ tokens' = [tokens EXCEPT ![c] = 0]
    /\ stream' = [stream EXCEPT ![c] = FALSE]
    /\ UNCHANGED <<token_rate, request_rate, period, concurrent,
                   token_allowance, request_allowance, before, now, usage,
                   admitted>>
    /\ UNCHANGED <<avars, rvars, pvars, hvars>>

\* one entry of the log
Ev(e, n) == [ev |-> e, n |-> n]

\* the completion object is built: __init__ estimates the cost
Begun(n) ==
    /\ log' = <<Ev("estimate", n)>>
    /\ raised' = NoFailure

\* what the step did is appended to the log
Noted(events) ==
    /\ log' = log \o events
    /\ UNCHANGED raised

\* the lease is what the with block of lock/alock holds; a request that
\* was never admitted holds none
LeaseEnds(c) == IF cpc[c] = "flight" THEN <<Ev("release", 0)>> ELSE <<>>

\* mutant: the lease given up before output is called
AnsweredReleasedFirst(n) ==
    <<Ev("response", 0), Ev("release", 0), Ev("output", n)>>

\* `return self.unpack_content(<response>)` inside the with block: the
\* response is there, unpack_content calls output with the usage it
\* reports, then the with block ends
Answered(n) == <<Ev("response", 0), Ev("output", n), Ev("release", 0)>>

\* the deltas the observed stream has delivered
Deltas == Cardinality({j \in 1..Len(log) : log[j].ev = "delta"})

CompletionNext ==
    \/ Tick /\ UNCHANGED ovars
    \/ \E n \in Costs : Await(Client, n) /\ Begun(n)
    \/ \E n \in Costs : BlockingCall(Client, n) /\ Begun(n)
    \/ \E n \in Costs : AsyncStream(Client, n) /\ Begun(n)
    \/ \E n \in Costs : BlockingStream(Client, n) /\ Begun(n)
    \/ Acquire(Client) /\ Noted(<<Ev("slot", 0)>>)
    \/ /\ Poll(Client)
       /\ Noted(IF cpc'[Client] = "flight"
                THEN <<Ev("lease", tokens[Client]), Ev("request", 0)>>
                ELSE <<>>)
    \/ \E n \in 0..MaxOutput :
          /\ Finish(Client, n)
          /\ Noted(Answered(n))
    \/ /\ Deltas < MaxDeltas
       /\ Delta(Client)
       /\ Noted(<<Ev("delta", 0), Ev("output", 1)>>)
    \/ StreamEnd(Client) /\ Noted(<<Ev("end", 0), Ev("release", 0)>>)
    \/ \E signal \in Signals :
          /\ Fail(Client, signal)
          /\ log' = log \o <<Ev("error", 0), Ev("release", 0)>>
          /\ raised' = [path |-> path[Client], stream |-> stream[Client],
                        signal |-> signal,
                        error |-> transmute_errors(signal)]
    \/ Cancel(Client) /\ Noted(<<Ev("cancel", 0)>> \o LeaseEnds(Client))

SpecCompletion == ThrottleInit /\ [][CompletionNext]_vars

(***************************************************************************)
(* The connector registry and its lazy loaders (connectors/connector.py,   *)
(* connectors/__init__.py), and Kernel.__call__                            *)
(***************************************************************************)
\* models.openai and models.gpt4all of defaults.py, as far as the lookups
\* of the model name them
models_openai == {<<"gpt-4">>}

models_gpt4all == {<<"gpt4all-j-v1.3-groovy">>}

\* what a catalog request to a provider can give: a failure, or a catalog
Nets ==
    [openai : {[ok |-> FALSE, ids |-> {}],
               [ok |-> TRUE, ids |-> {<<"gpt-4">>, <<"my-model">>}]},
     gpt4all : {[ok |-> FALSE, ids |-> {}],
                [ok |-> TRUE, ids |-> {<<"gpt4all-j-v1.3-groovy">>}]}]

\* the state a lookup reads and writes
State ==
    [registry |-> registry, modules |-> modules, inits |-> inits,
     catalog |-> catalog, fetched |-> fetched]

\* `Connector.registry[name] = cls()`: a dict keeps the place of a key it
\* already has
register(reg, name, cls) ==
    IF \E j \in 1..Len(reg) : reg[j].name = name
    THEN [j \in 1..Len(reg) |->
            IF reg[j].name = name THEN [name |-> name, cls |-> cls] ELSE reg[j]]
    ELSE Append(reg, [name |-> name, cls |-> cls])

\* whether the import statement finds the module in sys.modules
Imported(name, mods) == name \in mods

\* mutant: a module body that registers nothing
importUnregistered(name, st) ==
    IF Imported(name, st.modules)
    THEN st
    ELSE [st EXCEPT !.modules = @ \cup {name},
                    !.inits[name] = @ + 1]

\* `from . import <name>`: the first import runs the module body, whose
\* decorator registers the connector under the loader's name
import(name, st) ==
    IF Imported(name, st.modules)
    THEN st
    ELSE [st EXCEPT !.modules = @ \cup {name},
                    !.registry = register(@, name, Connector(name)),
                    !.inits[name] = @ + 1]

\* an answer of supports, the state it leaves, and how it came by the
\* catalog if it read it
Answer(answer, st, list) == [answer |-> answer, st |-> st, list |-> list]

\* the answer of a loader that wants its connector: the import fails when
\* the provider's package is missing
Load(name, st) ==
    IF Imported(name, st.modules) \/ name \in installed
    THEN Answer("yes", import(name, st), "unread")
    ELSE Answer("ModuleNotFoundError", st, "unread")

\* mutant: a model_list that is not cached
CachedNever(name, st) == FALSE

\* whether the cached_property model_list has its value
Cached(name, st) == st.catalog[name].set

\* the cached_property model_list: the first access asks the provider and
\* caches what it gets; a failed request caches nothing
model_list(name, st, net) ==
    IF Cached(name, st)
    THEN [ok |-> TRUE, how |-> "cached", ids |-> st.catalog[name].ids,
          st |-> st]
    ELSE IF net[name].ok
    THEN [ok |-> TRUE, how |-> "fetched", ids |-> net[name].ids,
          st |-> [st EXCEPT !.catalog[name] = [set |-> TRUE, ids |-> net[name].ids],
                            !.fetched[name] = @ + 1]]
    ELSE [ok |-> FALSE, how |-> "failed", ids |-> {}, st |-> st]

\* the name without a leading "ggml-" and a trailing ".bin"
Stripped(parts) ==
    LET a == IF Len(parts) > 0 /\ Head(parts) = "ggml-" THEN Tail(parts) ELSE parts
    IN IF Len(a) > 0 /\ a[Len(a)] = ".bin" THEN SubSeq(a, 1, Len(a) - 1) ELSE a

\* whether `x in catalog` answers yes
Member(ok) == IF ok THEN "yes" ELSE "no"

\* supports(config) of the object registered as cls: its answer ("yes",
\* "no", or the exception it raises) and the state it leaves
supports(cls, config, st, net) ==
    LET model == config.model
        key == config.openai_api_key # "None"
    IN CASE cls = "_openai_loader" ->
              IF (model.given = "str" /\ model.parts \in models_openai) \/ key
              THEN Load("openai", st)
              ELSE Answer("no", st, "unread")
         [] cls = "_gpt4all_loader" ->
              IF model.given = "str" /\ Stripped(model.parts) \in models_gpt4all
              THEN Load("gpt4all", st)
              ELSE Answer("no", st, "unread")
         [] cls = "OpenAIConnector" ->
              IF key
              THEN Answer("yes", st, "unread")
              ELSE LET list == model_list("openai", st, net)
                   IN IF ~list.ok
                      THEN Answer("APIError", st, list.how)
                      ELSE Answer(Member(model.given = "str"
                                           /\ model.parts \in list.ids),
                                  list.st, list.how)
         [] cls = "GPT4AllConnector" ->
              IF model.given = "absent"
              THEN Answer("KeyError('model')", st, "unread")
              ELSE IF model.given = "None"
              THEN Answer("AttributeError", st, "unread")
              ELSE LET list == model_list("gpt4all", st, net)
                   IN IF ~list.ok
                      THEN Answer("ConnectionError", st, list.how)
                      ELSE Answer(Member(Stripped(model.parts) \in list.ids),
                                  list.st, list.how)

\* mutant: the registry walked from its last item to its first
itemsReversed(reg) == [j \in 1..Len(reg) |-> Len(reg) + 1 - j]

\* registry.items(): the places of the dict, in insertion order
items(reg) == [j \in 1..Len(reg) |-> j]

\* `return cls.registry[name]`: what the registry holds under the name now
Registered(reg, name) ==
    (CHOOSE e \in {reg[j] : j \in 1..Len(reg)} : e.name = name).cls

\* the KeyError of find: its message formats config['model'], which itself
\* raises KeyError('model') when the configuration has no model
NotFound(config) ==
    Outcome("raise",
            IF config.model.given = "absent" THEN "KeyError('model')"
                                              ELSE "KeyError",
            config.model)

\* Connector.find from the k-th place of the walk on: the state it leaves,
\* whom it asked and how it ended
RECURSIVE FindFrom(_, _, _, _, _, _)
FindFrom(order, k, config, st, net, asked) ==
    IF k > Len(order)
    THEN [st |-> st, asked |-> asked, outcome |-> NotFound(config)]
    ELSE LET entry == st.registry[order[k]]
             a == supports(entry.cls, config, st, net)
             asked2 == Append(asked, [name |-> entry.name, cls |-> entry.cls,
                                      answer |-> a.answer, list |-> a.list])
         IN IF a.answer = "yes"
            THEN [st |-> a.st, asked |-> asked2,
                  outcome |-> Outcome("return",
                                      Registered(a.st.registry, entry.name),
                                      config.model)]
            ELSE IF a.answer = "no"
            THEN FindFrom(order, k + 1, config, a.st, net, asked2)
            ELSE [st |-> a.st, asked |-> asked2,
                  outcome |-> Outcome("raise", a.answer, config.model)]

find(config, net) == FindFrom(items(registry), 1, config, State, net, <<>>)

\* the lookup leaves its state and its record
Looked(config, r) ==
    /\ registry' = r.st.registry
    /\ modules' = r.st.modules
    /\ inits' = r.st.inits
    /\ catalog' = r.st.catalog
    /\ fetched' = r.st.fetched
    /\ lookup' = [config |-> config, asked |-> r.asked, outcome |-> r.outcome]

RegistryInit ==
    /\ adapter = "plain"
    /\ mode = "sync"
    /\ retry = 0
    /\ NotCalled
    /\ ThrottleIdle
    /\ installed \in SUBSET {"openai", "gpt4all"}
    /\ RegistryLoaded
    /\ RestIdle

\* Connector.find(config), called for itself or by Kernel.complete
Find(config, net) ==
    /\ Looked(config, find(config, net))
    /\ UNCHANGED <<installed, sf>>
    /\ UNCHANGED <<avars, tvars, ovars, pvars, hvars>>

\* mutant: a semantic function is made whether or not the lookup succeeded
MadeAnyway(found) == "built"

\* what Kernel.__call__ makes of the lookup: the exception of find leaves
\* it before the decorator is reached
Made(found) == IF found.kind = "raise" THEN "raised" ELSE "built"

\* Kernel.__call__(origin, config=...): the configuration is merged, the
\* adapter and the connector are looked up, then the function is built
Decorate(config, net) ==
    LET r == find(config, net)
    IN /\ Looked(config, r)
       /\ sf' = [state |-> Made(r.outcome), found |-> r.outcome,
                 lookups |-> 1, prompts |-> 0, leases |-> 0, requests |-> 0]
       /\ UNCHANGED installed
       /\ UNCHANGED <<avars, tvars, ovars, pvars, hvars>>

\* a call of the semantic function: the adapter builds a prompt
BuildPrompt ==
    /\ sf.state = "built"
    /\ sf.prompts = sf.requests
    /\ sf.prompts < MaxCalls
    /\ sf' = [sf EXCEPT !.prompts = @ + 1]
    /\ UNCHANGED <<installed, registry, modules, inits, catalog, fetched,
                   lookup>>
    /\ UNCHANGED <<avars, tvars, ovars, pvars, hvars>>

\* connector.complete(prompt, config) and the consumption of the
\* completion: a Throttle lease, then the request
Complete ==
    /\ sf.state = "built"
    /\ sf.requests < sf.prompts
    /\ sf' = [sf EXCEPT !.leases = @ + 1, !.requests = @ + 1]
    /\ UNCHANGED <<installed, registry, modules, inits, catalog, fetched,
                   lookup>>
    /\ UNCHANGED <<avars, tvars, ovars, pvars, hvars>>

RegistryNext ==
    \/ \E config \in Configs, net \in Nets : Find(config, net)
    \/ \E config \in Configs, net \in Nets : Decorate(config, net)
    \/ BuildPrompt
    \/ Complete

SpecRegistry == RegistryInit /\ [][RegistryNext]_vars

(***************************************************************************)
(* The layers of a configuration: defaults.py, the environment read by     *)
(* DefaultKernel.config, Kernel.__init__ and Kernel.__call__ (kernel.py)   *)
(***************************************************************************)
Max(a, b) == IF a >= b THEN a ELSE b

\* float("inf"): above every number an option is given
inf == MaxSetting + 1

\* defaults.config, for the options followed
defaults_config(o) ==
    CASE o = "temperature" -> 0
      [] o = "retry" -> 3
      [] o = "concurrent" -> 1

\* defaults.RETRY
RETRY == 3

\* clamp(t, lo, hi)(v), on the number t(v)
clamp(lo, hi, v) == Max(lo, Min(hi, v))

\* CONFIG_SCHEMA[o](v)
CONFIG_SCHEMA(o, v) ==
    CASE o = "temperature" -> clamp(0, 2, v)
      [] o = "retry" -> clamp(0, inf, v)
      [] o = "concurrent" -> clamp(1, inf, v)

\* what an environment variable can hold: nothing, the empty string, or
\* the text of a number below or above every domain
EnvValues ==
    {[given |-> "unset", n |-> 0], [given |-> "empty", n |-> 0],
     [given |-> "text", n |-> -1], [given |-> "text", n |-> MaxSetting]}

\* the cached_property DefaultKernel.config: for each name of the schema
\* `os.getenv(NAME) or defaults.config.get(name)`, passed through the
\* schema; an unset or empty variable is falsy and gives way to the default
DefaultKernel_config(env) ==
    [o \in Options |->
        Defined(CONFIG_SCHEMA(o, IF env[o].given = "text"
                                 THEN env[o].n
                                 ELSE defaults_config(o)))]

\* {**a, **b}: the keys of b shadow those of a
Merged(a, b) == [o \in Options |-> IF b[o].defined THEN b[o] ELSE a[o]]

\* the overrides a kernel or a call is given in `config`, and in **kwargs
ConfigLayers == [Options -> {Undefined, Defined(MaxSetting)}]

KwargsLayers == [Options -> {Undefined, Defined(-1)}]

\* the adapter argument of Kernel.__call__: None, or a PlainAdapter the
\* caller constructed from a config without or with a retry
AdapterRefs == {"None", "PlainAdapter({})", "PlainAdapter({'retry': -1})"}

\* PlainAdapter.__init__: config.get("retry", RETRY)
PlainAdapter_retry(a) == IF a = "PlainAdapter({})" THEN RETRY ELSE -1

ConfigInit ==
    /\ adapter = "plain"
    /\ mode = "sync"
    /\ retry = 0
    /\ NotCalled
    /\ ThrottleIdle
    /\ RegistryIdle
    /\ ThrottlesIdle
    /\ ConventionIdle
    /\ TaskIdle
    /\ DecodeIdle
    /\ environ \in [Options -> EnvValues]
    /\ kernel = KernelUnused
    /\ fn = Unbound
    /\ reached = NotReached

\* `Adapter.registry.find(adapter)`: the registry is a dict, and a dict has
\* no attribute find
Adapter_registry_find(a) == Err("AttributeError")

\* Kernel(adapter, config, **kwargs): the adapter is looked up first, and
\* the exception of the lookup leaves __init__ before
\* `self.config = {**defaults.config, **config, **kwargs}` is reached
Kernel_init(overrides) ==
    /\ kernel.made = "none"
    /\ LET found == Adapter_registry_find("plain")
       IN kernel' =
            IF found.ok
            THEN [kernel EXCEPT
                    !.made = "Kernel",
                    !.overrides = overrides,
                    !.own = Merged([o \in Options |->
                                      Defined(defaults_config(o))],
                                   overrides)]
            ELSE [kernel EXCEPT !.made = found.error,
                                !.overrides = overrides]
    /\ UNCHANGED <<environ, fn, reached>>
    /\ UNCHANGED <<avars, tvars, ovars, rvars, kvars, bvars, dvars, hvars>>

\* semantic(origin, adapter, config=site, **kwargs), Kernel.__call__ on the
\* DefaultKernel: self.config is computed on its first use and merged with
\* the call's overrides; with no adapter given self.adapter is built, as
\* TypeAdapter(self.config['retry']), whose __init__ calls .get on that int
Kernel_call(a, site, kwargs) ==
    /\ fn.state = "none"
    /\ LET config == IF kernel.cached THEN kernel.config
                     ELSE DefaultKernel_config(environ)
       IN /\ kernel' = [kernel EXCEPT !.cached = TRUE, !.config = config]
          /\ fn' = [state |-> IF a = "None" THEN "AttributeError" ELSE "built",
                    adapter |-> a,
                    retry |-> IF a = "None" THEN 0 ELSE PlainAdapter_retry(a),
                    config |-> Merged(Merged(config, site), kwargs),
                    site |-> site, kwargs |-> kwargs]
    /\ UNCHANGED <<environ, reached>>
    /\ UNCHANGED <<avars, tvars, ovars, rvars, kvars, bvars, dvars, hvars>>

\* a call of the semantic function: the adapter negotiates with its own
\* retry, and connector.complete(prompt, config) is given the merged config
Invoke ==
    /\ fn.state = "built"
    /\ ~reached.called
    /\ reached' = [called |-> TRUE, retry |-> fn.retry, config |-> fn.config]
    /\ UNCHANGED <<environ, kernel, fn>>
    /\ UNCHANGED <<avars, tvars, ovars, rvars, kvars, bvars, dvars, hvars>>

ConfigNext ==
    \/ \E overrides \in ConfigLayers : Kernel_init(overrides)
    \/ \E a \in AdapterRefs, site \in ConfigLayers, kwargs \in KwargsLayers :
          Kernel_call(a, site, kwargs)
    \/ Invoke

SpecConfig == ConfigInit /\ [][ConfigNext]_vars

(***************************************************************************)
(* The two calling conventions (kernel.py): the same operation, adapter,   *)
(* connector and responses, once through async_semantic_fn and once        *)
(* through sync_semantic_fn                                                *)
(***************************************************************************)
\* the responses the provider gives in the comparison: one that decodes
\* under TypeAdapter, one that decodes under ChainOfThoughtAdapter, one
\* that decodes under neither
Replies == { <<"42">>, <<"thought", "return(42)">>, <<"[1">> }

\* how the closure of the convention obtains the response of a completion
\* of the provider: `await completion` runs __await__, which both
\* completions define (OpenAICompletion inside throttle.alock);
\* `completion.sync()` is a method of GPT4AllCompletion only
Obtained(convention, connector) ==
    CASE convention = "async" /\ connector = "openai" -> Ok(<<"alock", "response">>)
      [] convention = "async" /\ connector = "gpt4all" -> Ok(<<"response">>)
      [] convention = "sync" /\ connector = "gpt4all" -> Ok(<<"response">>)
      [] convention = "sync" /\ connector = "openai" -> Err("AttributeError")

ConventionInit ==
    /\ adapter \in {"plain", "type", "chain"}
    /\ mode = "async"
    /\ retry \in 0..MaxRetry
    /\ NotCalled
    /\ ThrottleIdle
    /\ RegistryIdle
    /\ ThrottlesIdle
    /\ ConfigIdle
    /\ TaskIdle
    /\ DecodeIdle
    /\ provider \in {"openai", "gpt4all"}
    /\ twin = NoTwin

\* `await completion` / `completion.sync()`: the response arrives, or the
\* attribute lookup raises; the closure catches StopIteration only.  The
\* blocking call is given the responses the suspending call was given.
Consume(r) ==
    /\ pc = "await"
    /\ twin.taken =>
          /\ Len(exchanges) < Len(twin.exchanges)
          /\ r = twin.exchanges[Len(exchanges) + 1].response
    /\ LET got == Obtained(mode, provider)
       IN IF got.ok
          THEN /\ pc' = "send"
               /\ exchanges' = Append(exchanges,
                                      [prompt |-> prompt, response |-> r])
               /\ trace' = trace \o got.value
               /\ UNCHANGED <<outcome, result>>
          ELSE /\ pc' = "done"
               /\ outcome' = "raise"
               /\ result' = [kind |-> "error", error |-> got.error]
               /\ trace' = trace \o <<"raise">>
               /\ UNCHANGED exchanges
    /\ UNCHANGED <<adapter, mode, retry, prompt, res, i>>
    /\ UNCHANGED <<tvars, ovars, rvars, pvars, hvars>>

\* the suspending call has ended: the same operation, declared without
\* `async`, is built with the same adapter, connector and config and called
\* with the same arguments
Again ==
    /\ pc = "done"
    /\ mode = "async"
    /\ twin' = [taken |-> TRUE, exchanges |-> exchanges, trace |-> trace,
                outcome |-> outcome, result |-> result]
    /\ mode' = "sync"
    /\ pc' = "idle"
    /\ prompt' = None
    /\ res' = <<>>
    /\ i' = 0
    /\ outcome' = "pending"
    /\ result' = None
    /\ exchanges' = <<>>
    /\ trace' = <<>>
    /\ UNCHANGED <<adapter, retry, provider>>
    /\ UNCHANGED <<tvars, ovars, rvars, cvars, bvars, dvars, hvars>>

ConventionNext ==
    \/ Call
    \/ Request
    \/ \E r \in Replies : Consume(r)
    \/ Send
    \/ Parse
    \/ Again

SpecConvention == ConventionInit /\ [][ConventionNext]_vars

(***************************************************************************)
(* build_task (util.py) and the task of each adapter (adapter.py)          *)
(***************************************************************************)
\* what the body of an operation can return: None, the empty string, a
\* text, a text with indentation and a blank line around it
Returns ==
    {NoText, Text(<<>>), Text(<<Line(0, "Body")>>),
     Text(<<Line(0, ""), Line(1, "Body")>>)}

\* the docstring an operation is declared with: none, one line, the usual
\* indented block, a block whose lines are indented differently
Docs ==
    {NoText, Text(<<Line(0, "Doc")>>),
     Text(<<Line(0, ""), Line(1, "Doc"), Line(1, "")>>),
     Text(<<Line(0, "Doc"), Line(2, "more"), Line(1, "end")>>)}

\* the origins: a function (its body's return for each argument, its
\* docstring) or a string, each given to one of the adapters
Origins ==
    [kind : {"callable"}, text : {NoText}, body : [Args -> Returns],
     doc : Docs, args : Args, adapter : {"task", "plain", "type", "chain"}]
    \cup
    [kind : {"str"},
     text : {Text(<<>>), Text(<<Line(0, "Summarise")>>),
             Text(<<Line(0, ""), Line(1, "Summarise")>>)},
     body : {[x \in Args |-> NoText]}, doc : {NoText}, args : Args,
     adapter : {"task", "plain", "type", "chain"}]

\* the truth value of what the body returned, in `if task := origin(...)`
Truth(x) == x.t = "str" /\ x.lines # <<>>

\* inspect.cleandoc on the lines of a docstring: the first line loses its
\* indentation, the others the smallest indentation of the non-blank ones
\* among them, then the empty lines at the end and at the start are dropped
cleandoc(lines) ==
    LET rest == {lines[j].indent : j \in {k \in 2..Len(lines) : lines[k].text # ""}}
        margin == IF rest = {} THEN 0
                  ELSE CHOOSE m \in rest : \A n \in rest : m <= n
        cut == [j \in 1..Len(lines) |->
                  IF j = 1 THEN Line(0, lines[j].text)
                  ELSE Line(Max(0, lines[j].indent - margin), lines[j].text)]
        full == {j \in 1..Len(cut) : cut[j] # Line(0, "")}
    IN IF full = {} THEN <<>>
       ELSE SubSeq(cut, CHOOSE m \in full : \A n \in full : m <= n,
                        CHOOSE m \in full : \A n \in full : m >= n)

\* inspect.getdoc(origin): None without a docstring, else the cleaned one
getdoc(o) == IF o.doc.t = "str" THEN Text(cleandoc(o.doc.lines)) ELSE NoText

\* build_task(origin, args, kwargs)
build_task(o) ==
    IF o.kind = "callable"
    THEN IF Truth(o.body[o.args]) THEN o.body[o.args] ELSE getdoc(o)
    ELSE o.text

\* the f-string of TypeAdapter.task: str() of what build_task returned
Formatted(x) == IF x.t = "NoneType" THEN Text(<<Line(0, "None")>>) ELSE x

\* self.task(origin, args, kwargs) of the adapter class (TaskAdapter yields
\* build_task itself): the form of the task and the description it carries.
\* TypeAdapter.task, which ChainOfThoughtAdapter inherits, writes
\* `"task: " + "origin"` for an origin that is not callable.
task(a, o) ==
    IF a \in {"task", "plain"}
    THEN [done |-> TRUE, form |-> "text", description |-> build_task(o)]
    ELSE IF o.kind = "callable"
    THEN [done |-> TRUE, form |-> "def/doc/args",
          description |-> Formatted(build_task(o))]
    ELSE [done |-> TRUE, form |-> "task/args/kwargs",
          description |-> Text(<<Line(0, "origin")>>)]

TaskInit ==
    /\ adapter = "plain"
    /\ mode = "sync"
    /\ retry = 0
    /\ NotCalled
    /\ ThrottleIdle
    /\ RegistryIdle
    /\ ThrottlesIdle
    /\ ConfigIdle
    /\ ConventionIdle
    /\ DecodeIdle
    /\ op \in Origins
    /\ built = NotBuilt

\* the first step of adapter(origin, *args, **kwargs): the task is built
BuildTask ==
    /\ ~built.done
    /\ built' = task(op.adapter, op)
    /\ UNCHANGED op
    /\ UNCHANGED <<avars, tvars, ovars, rvars, cvars, kvars, dvars, hvars>>

TaskNext == BuildTask

SpecTask == TaskInit /\ [][TaskNext]_vars

(***************************************************************************)
(* The semantic function closure called on an origin: the adapter builds   *)
(* the task and yields its first prompt, and the closure drives it         *)
(***************************************************************************)
\* what a generator yields as a prompt: None, or a text with its lines
Yielded(x) ==
    IF x.t = "NoneType" THEN None ELSE [kind |-> "text", lines |-> x.lines]

\* the first prompt of adapter class a for the task t: TaskAdapter yields
\* build_task's result as it is; the others fill the task into PROMPT
first_prompt(a, t) ==
    IF a = "task"
    THEN Yielded(t.description)
    ELSE [kind |-> "prompt", task |-> t.description]

\* the responses the provider gives here: one that decodes under the type
\* adapter, one that does not
Answers == { <<"42">>, <<"[1">> }

DriveInit ==
    /\ op \in Origins
    /\ built = NotBuilt
    /\ adapter = op.adapter
    /\ mode \in {"sync", "async"}
    /\ retry \in {0, MaxRetry}
    /\ NotCalled
    /\ ThrottleIdle
    /\ RegistryIdle
    /\ ThrottlesIdle
    /\ ConfigIdle
    /\ ConventionIdle
    /\ DecodeIdle

\* task = adapter(origin, *args, **kwargs); prompt = next(task): the
\* generator builds the task and runs to its first yield; `while prompt:`
\* is not entered on a false prompt, and the closure returns None
Start ==
    /\ pc = "idle"
    /\ ~built.done
    /\ LET t == task(adapter, op)
           p == first_prompt(adapter, t)
       IN /\ built' = t
          /\ prompt' = p
          /\ IF Truthy(p)
             THEN /\ pc' = "request"
                  /\ UNCHANGED <<outcome, result>>
             ELSE /\ pc' = "done"
                  /\ outcome' = "return"
                  /\ result' = None
    /\ trace' = Append(trace, "prompt")
    /\ UNCHANGED <<adapter, mode, retry, res, i, exchanges, op>>
    /\ UNCHANGED <<tvars, ovars, rvars, cvars, kvars, dvars, hvars>>

\* task.send(response) to the TaskAdapter: `res = yield ...; return res`
\* ends the generator, and the closure returns StopIteration.value
TaskSend ==
    /\ pc = "send"
    /\ adapter = "task"
    /\ res' = exchanges[Len(exchanges)].response
    /\ pc' = "done"
    /\ outcome' = "return"
    /\ result' = Value(exchanges[Len(exchanges)].response)
    /\ trace' = Append(trace, "send")
    /\ UNCHANGED <<adapter, mode, retry, prompt, i, exchanges>>
    /\ UNCHANGED <<tvars, ovars, rvars, pvars, hvars>>

DriveNext ==
    \/ Start
    \/ Request
    \/ \E r \in Answers : Respond(r)
    \/ TaskSend
    \/ adapter # "task" /\ Send
    \/ Parse

SpecDrive == DriveInit /\ [][DriveNext]_vars

(***************************************************************************)
(* typecast (util.py).  A string is the sequence of its characters; a      *)
(* number is held in tenths, so that 3, 3.0 and 3.5 are 30, 30 and 35; a   *)
(* dict or a dataclass instance holds the values of its keys a and b.      *)
(***************************************************************************)
PyBool(b) == Py("bool", IF b THEN 10 ELSE 0, <<>>, <<>>)

PyInt(k) == Py("int", 10 * k, <<>>, <<>>)

PyFloat(tenths) == Py("float", tenths, <<>>, <<>>)

PyStr(chars) == Py("str", 0, chars, <<>>)

PyList(elems) == Py("list", 0, <<>>, elems)

PyTuple(elems) == Py("tuple", 0, <<>>, elems)

\* the outcome of a call: the value returned, or the exception raised
Done(v) == [state |-> "ok", value |-> v, error |-> ""]

Raise(e) == [state |-> "raise", value |-> PyNone, error |-> e]

DigitChars == <<"0", "1", "2", "3", "4", "5", "6", "7", "8", "9">>

IsDigit(c) == \E d \in 1..10 : DigitChars[d] = c

DigitValue(c) == (CHOOSE d \in 1..10 : DigitChars[d] = c) - 1

\* the decimal digits of a natural number
RECURSIVE Digits(_)
Digits(k) ==
    IF k < 10 THEN <<DigitChars[k + 1]>>
    ELSE Digits(k \div 10) \o <<DigitChars[(k % 10) + 1]>>

\* the natural number a sequence of digits spells
RECURSIVE Number(_)
Number(chars) ==
    IF chars = <<>> THEN 0
    ELSE 10 * Number(SubSeq(chars, 1, Len(chars) - 1))
           + DigitValue(chars[Len(chars)])

AllDigits(chars) == chars # <<>> /\ \A j \in 1..Len(chars) : IsDigit(chars[j])

\* int(text, 0) on an unsigned text: digits only, no leading zero
int_literal(chars) ==
    IF AllDigits(chars) /\ (Len(chars) = 1 \/ chars[1] # "0")
    THEN Done(PyInt(Number(chars)))
    ELSE Raise("ValueError")

\* float(text) on an unsigned text: digits, or digits "." one digit
float_literal(chars) ==
    IF AllDigits(chars) THEN Done(PyFloat(10 * Number(chars)))
    ELSE IF /\ Len(chars) >= 3
            /\ chars[Len(chars) - 1] = "."
            /\ AllDigits(SubSeq(chars, 1, Len(chars) - 2))
            /\ IsDigit(chars[Len(chars)])
    THEN Done(PyFloat(10 * Number(SubSeq(chars, 1, Len(chars) - 2))
                        + DigitValue(chars[Len(chars)])))
    ELSE Raise("ValueError")

\* str.lower, on the letters the texts have
lower(chars) ==
    [j \in 1..Len(chars) |->
        CASE chars[j] = "T" -> "t"
          [] chars[j] = "F" -> "f"
          [] chars[j] = "N" -> "n"
          [] OTHER -> chars[j]]

\* parse_bool on a string
parse_bool(chars) ==
    LET text == lower(chars)
    IN IF text \in {<<"t">>, <<"t", "r", "u", "e">>, <<"y">>,
                    <<"y", "e", "s">>, <<"o", "n">>,
                    <<"e", "n", "a", "b", "l", "e">>, <<"1">>}
       THEN Done(PyBool(TRUE))
       ELSE IF text \in {<<"f">>, <<"f", "a", "l", "s", "e">>, <<"n">>,
                         <<"n", "o">>, <<"o", "f", "f">>,
                         <<"d", "i", "s", "a", "b", "l", "e">>, <<"0">>, <<>>}
       THEN Done(PyBool(FALSE))
       ELSE Raise("ValueError")

\* the elements `for v in value` gives: the items of a list or tuple, the
\* characters of a string, the keys of a dict; other values do not iterate
Iterates(v) == v.t \in {"list", "tuple", "str", "dict"}

Elements(v) ==
    CASE v.t \in {"list", "tuple"} -> v.items
      [] v.t = "str" -> [j \in 1..Len(v.s) |-> PyStr(<<v.s[j]>>)]
      [] v.t = "dict" -> <<PyStr(<<"a">>), PyStr(<<"b">>)>>
      [] OTHER -> <<>>

\* the texts joined by ", "
RECURSIVE Joined(_)
Joined(texts) ==
    IF texts = <<>> THEN <<>>
    ELSE IF Len(texts) = 1 THEN texts[1]
    ELSE texts[1] \o <<",", " ">> \o Joined(Tail(texts))

\* repr(value)
RECURSIVE repr(_)
repr(v) ==
    CASE v.t = "NoneType" -> <<"N", "o", "n", "e">>
      [] v.t = "bool" -> IF v.n # 0 THEN <<"T", "r", "u", "e">>
                         ELSE <<"F", "a", "l", "s", "e">>
      [] v.t = "int" -> Digits(v.n \div 10)
      [] v.t = "float" -> Digits(v.n \div 10) \o <<".">> \o Digits(v.n % 10)
      [] v.t = "str" -> <<"'">> \o v.s \o <<"'">>
      [] v.t = "list" ->
            <<"[">> \o Joined([j \in 1..Len(v.items) |-> repr(v.items[j])])
                    \o <<"]">>
      [] v.t = "tuple" ->
            <<"(">> \o Joined([j \in 1..Len(v.items) |-> repr(v.items[j])])
                    \o (IF Len(v.items) = 1 THEN <<",">> ELSE <<>>) \o <<")">>
      [] v.t = "dict" ->
            <<"{", "'", "a", "'", ":", " ">> \o repr(v.items[1])
              \o <<",", " ", "'", "b", "'", ":", " ">> \o repr(v.items[2])
              \o <<"}">>
      [] OTHER ->
            <<"P", "a", "i", "r", "(", "a", "=">> \o repr(v.items[1])
              \o <<",", " ", "b", "=">> \o repr(v.items[2]) \o <<")">>

\* str(value)
str(v) == PyStr(IF v.t = "str" THEN v.s ELSE repr(v))

\* float(value)
float(v) ==
    CASE v.t \in {"bool", "int", "float"} -> Done(PyFloat(v.n))
      [] v.t = "str" -> float_literal(v.s)
      [] OTHER -> Raise("TypeError")

\* int(value) on a value that is not a string: a float is truncated
int(v) ==
    CASE v.t \in {"bool", "int"} -> Done(Py("int", v.n, <<>>, <<>>))
      [] v.t = "float" -> Done(Py("int", 10 * (v.n \div 10), <<>>, <<>>))
      [] OTHER -> Raise("TypeError")

\* bool(value)
bool(v) ==
    PyBool(CASE v.t \in {"bool", "int", "float"} -> v.n # 0
             [] v.t = "NoneType" -> FALSE
             [] v.t = "str" -> v.s # <<>>
             [] v.t \in {"list", "tuple"} -> v.items # <<>>
             [] OTHER -> TRUE)

\* tuple(value), list(value)
collected(origin, v) ==
    IF Iterates(v) THEN Done(Py(origin, 0, <<>>, Elements(v)))
    ELSE Raise("TypeError")

\* the classes normalize_type returns as they are
Builtins == {"Any", "bool", "int", "float", "NoneType", "str", "list", "tuple"}

\* normalize_type(cls): a class that is none of the builtins has no origin,
\* and build_generic(normalize_type(None), ()) subscripts NoneType
RECURSIVE normalize_type(_)
normalize_type(cls) ==
    IF cls.args = <<>>
    THEN IF cls.k \in Builtins THEN Ok(cls) ELSE Err("TypeError")
    ELSE LET args == [j \in 1..Len(cls.args) |-> normalize_type(cls.args[j])]
         IN IF \E j \in 1..Len(args) : ~args[j].ok THEN Err("TypeError")
            ELSE Ok(Generic(cls.k, [j \in 1..Len(args) |-> args[j].value]))

\* dataclasses.fields(Pair): a: int, b: str
Pair_fields == <<Type("int"), Type("str")>>

\* the first exception among the outcomes, or the collection of the values
Gathered(t, outcomes) ==
    IF \E j \in 1..Len(outcomes) : outcomes[j].state = "raise"
    THEN outcomes[CHOOSE j \in 1..Len(outcomes) :
                    /\ outcomes[j].state = "raise"
                    /\ \A h \in 1..(j - 1) : outcomes[h].state = "ok"]
    ELSE Done(Py(t, 0, <<>>, [j \in 1..Len(outcomes) |-> outcomes[j].value]))

\* typecast(value, target), in the order of its tests
RECURSIVE typecast_to(_, _)
typecast_to(value, annotation) ==
    LET normal == normalize_type(annotation)
    IN IF ~normal.ok THEN Raise(normal.error)
       ELSE LET target == normal.value
                args == target.args
            IN
       IF args = <<>> /\ (value.t = target.k \/ target.k = "Any")
       THEN Done(value)
       ELSE IF target = Type("float") THEN float(value)
       ELSE IF target = Type("str") THEN Done(str(value))
       ELSE IF target = Type("tuple") THEN collected("tuple", value)
       ELSE IF target = Type("list") THEN collected("list", value)
       ELSE IF target = Type("NoneType")
       THEN IF value.t = "NoneType" THEN Done(value) ELSE Raise("TypeError")
       ELSE IF target = Type("bool")
       THEN IF value.t = "str" THEN parse_bool(value.s)
            ELSE IF value.t \in {"tuple", "list", "dict"}
            THEN Raise("TypeError")
            ELSE Done(bool(value))
       ELSE IF target = Type("int")
       THEN IF value.t = "str" THEN int_literal(value.s) ELSE int(value)
       \* issubclass(target, tuple): a typing.Union is not a class
       ELSE IF target.k = "Union" THEN Raise("TypeError")
       ELSE IF target.k = "Pair"
       THEN IF value.t = "dict"
            THEN Gathered("Pair",
                     [j \in 1..Len(value.items) |->
                         typecast_to(value.items[j], Pair_fields[j])])
            ELSE Raise("AttributeError")
       ELSE IF target.k = "Union"
       THEN LET tried == [j \in 1..Len(args) |-> typecast_to(value, args[j])]
            IN IF \E j \in 1..Len(args) : tried[j].state = "ok"
               THEN tried[CHOOSE j \in 1..Len(args) :
                            /\ tried[j].state = "ok"
                            /\ \A h \in 1..(j - 1) : tried[h].state = "raise"]
               ELSE Raise("TypeError")
       \* origin(typecast(v, args[0]) for v in value)
       ELSE IF Iterates(value)
       THEN LET elements == Elements(value)
            IN Gathered(target.k,
                   [j \in 1..Len(elements) |->
                       typecast_to(elements[j], args[1])])
       ELSE Raise("TypeError")

Optional(t) == Generic("Union", <<t, Type("NoneType")>>)

\* the values decoded: None, booleans, numbers with and without a
\* fractional part, texts, lists and tuples, a dict, a Pair
DecodeValues ==
    {PyNone, PyBool(TRUE), PyInt(3), PyInt(0), PyFloat(35), PyFloat(30),
     PyStr(<<"3">>), PyStr(<<"3", ".", "5">>), PyStr(<<"a", "b">>),
     PyStr(<<"y", "e", "s">>),
     PyList(<<PyInt(3), PyInt(3)>>),
     PyList(<<PyInt(3), PyStr(<<"a", "b">>)>>),
     PyList(<<PyInt(3), PyInt(3), PyInt(3)>>),
     PyList(<<PyStr(<<"3">>)>>),
     PyTuple(<<PyInt(3), PyInt(3)>>),
     PyTuple(<<PyInt(3), PyStr(<<"a", "b">>)>>),
     Py("dict", 0, <<>>, <<PyInt(3), PyStr(<<"a", "b">>)>>),
     Py("Pair", 0, <<>>, <<PyInt(3), PyStr(<<"a", "b">>)>>)}

\* the annotations decoded against: the builtin classes, optionals and
\* unions, fixed-arity tuples, a typed list, the dataclass Pair
DecodeTargets ==
    {Type(k) : k \in Builtins}
      \cup {Optional(Type("int")), Optional(Type("str")),
            Optional(Type("Pair")),
            Generic("Union", <<Type("int"), Type("str")>>),
            Generic("Union", <<Type("str"), Type("int")>>),
            Generic("tuple", <<Type("int"), Type("int")>>),
            Generic("tuple", <<Type("int"), Type("str")>>),
            Generic("tuple", <<Type("str"), Type("str")>>),
            Generic("list", <<Type("int")>>),
            Type("Pair")}

DecodeInit ==
    /\ adapter = "plain"
    /\ mode = "sync"
    /\ retry = 0
    /\ NotCalled
    /\ ThrottleIdle
    /\ RegistryIdle
    /\ ThrottlesIdle
    /\ ConfigIdle
    /\ ConventionIdle
    /\ TaskIdle
    /\ dval \in DecodeValues
    /\ dtype \in DecodeTargets
    /\ decoded = NotDecoded

\* typecast(value, target) is called
Typecast ==
    /\ decoded.state = "none"
    /\ decoded' = typecast_to(dval, dtype)
    /\ UNCHANGED <<dval, dtype>>
    /\ UNCHANGED <<avars, tvars, ovars, rvars, cvars, kvars, bvars, hvars>>

DecodeNext == Typecast

SpecDecode == DecodeInit /\ [][DecodeNext]_vars

(***************************************************************************)
(* The Throttles of the OpenAI connector (connectors/openai.py): a dict    *)
(* keyed by hash(config['openai_api_key']).  hash is fixed for the life of *)
(* a process and maps the keys into the integers; which keys it sends to   *)
(* the same integer differs from process to process.                       *)
(***************************************************************************)
\* mutant: complete() that builds a new Throttle when the limits differ
OpenAIConnector_completeRebuilt(d, h, limits, id) ==
    IF ~d[h].made \/ d[h].limits # limits
    THEN [d EXCEPT ![h] = Throttle(limits, id)] ELSE d

\* `if api_key not in self.throttle: self.throttle[api_key] = Throttle(...)`
OpenAIConnector_complete(d, h, limits, id) ==
    IF ~d[h].made THEN [d EXCEPT ![h] = Throttle(limits, id)] ELSE d

ThrottlesInit ==
    /\ adapter = "plain"
    /\ mode = "sync"
    /\ retry = 0
    /\ NotCalled
    /\ ThrottleIdle
    /\ RegistryIdle
    /\ ConfigIdle
    /\ ConventionIdle
    /\ TaskIdle
    /\ DecodeIdle
    /\ hashes \in [Credentials -> HashValues]
    /\ throttles = [h \in HashValues |-> NoThrottle]
    /\ serial = 0
    /\ calls = <<>>

\* OpenAIConnector.complete(prompt, config): the completion is given the
\* Throttle the dict holds under the hash of the key
OpenAIComplete(key, limits) ==
    /\ Len(calls) < MaxCompletions
    /\ LET h == hashes[key]
           d == OpenAIConnector_complete(throttles, h, limits, serial + 1)
       IN /\ throttles' = d
          /\ serial' = IF d = throttles THEN serial ELSE serial + 1
          /\ calls' = Append(calls, [key |-> key, limits |-> limits,
                                     throttle |-> d[h].id])
    /\ UNCHANGED hashes
    /\ UNCHANGED <<avars, tvars, ovars, rvars, pvars>>

\* can_proceed(1) of the Throttle the last completion was given, at the
\* instant the completion was made (dt = 0, nothing is replenished): the
\* test and the debit
Proceed ==
    /\ calls # <<>>
    /\ LET h == hashes[calls[Len(calls)].key]
           t == throttles[h]
       IN /\ t.token_allowance >= 1 /\ t.request_allowance >= 1
          /\ throttles' = [throttles EXCEPT
                             ![h].token_allowance = @ - 1,
                             ![h].request_allowance = @ - 1]
    /\ UNCHANGED <<hashes, serial, calls>>
    /\ UNCHANGED <<avars, tvars, ovars, rvars, pvars>>

ThrottlesNext ==
    \/ \E key \in Credentials, limits \in Limits : OpenAIComplete(key, limits)
    \/ Proceed

SpecThrottles == ThrottlesInit /\ [][ThrottlesNext]_vars

(***************************************************************************)
(* Progress at the Throttle.  Time does not end here: the clock is kept    *)
(* relative to the present instant, and a timestamp a whole period old or  *)
(* older is kept as one period old, which update_allowance cannot tell     *)
(* apart (its sum is clamped to the rate).                                 *)
(***************************************************************************)
ProgressInit ==
    /\ adapter = "plain"
    /\ mode = "sync"
    /\ retry = 0
    /\ NotCalled
    /\ token_rate \in {1, MaxTokenRate}
    /\ request_rate \in {1, MaxRequestRate}
    /\ period \in {1, MaxPeriod}
    /\ concurrent = 1
    /\ now = 0
    /\ ThrottleConstructed
    /\ NotObserved
    /\ RegistryIdle
    /\ RestIdle

\* time.monotonic() advances by one unit
Elapse ==
    /\ before' = Max(before - 1, now - period)
    /\ admitted' = [admitted EXCEPT !.at = Max(@ - 1, now - period)]
    /\ UNCHANGED <<token_rate, request_rate, period, concurrent,
                   token_allowance, request_allowance, sem, now, cpc, path,
                   tokens, blocker, usage, stream>>
    /\ UNCHANGED <<avars, ovars, rvars, pvars, hvars>>

\* the request of caller c signals its completion: a result, of no output
\* or of the longest, or a failure
Completes(c) ==
    \/ \E n \in {0, MaxOutput} : Finish(c, n) /\ UNCHANGED ovars
    \/ \E signal \in Signals : Fail(c, signal) /\ UNCHANGED ovars

ProgressNext ==
    \/ Elapse
    \/ \E c \in Callers, n \in Costs : Await(c, n) /\ UNCHANGED ovars
    \/ \E c \in Callers, n \in Costs : BlockingCall(c, n) /\ UNCHANGED ovars
    \/ \E c \in Callers : Acquire(c) /\ UNCHANGED ovars
    \/ \E c \in Callers : Poll(c) /\ UNCHANGED ovars
    \/ \E c \in Callers : Completes(c)

\* time keeps advancing, a sleeping caller wakes and polls again, the
\* semaphore wakes its waiters in turn, and every admitted request
\* eventually signals its completion
SpecProgress ==
    /\ ProgressInit
    /\ [][ProgressNext]_vars
    /\ WF_vars(Elapse)
    /\ \A c \in Callers : WF_vars(Poll(c) /\ UNCHANGED ovars)
    /\ \A c \in Callers : SF_vars(Acquire(c) /\ UNCHANGED ovars)
    /\ \A c \in Callers : WF_vars(Completes(c))

(***************************************************************************)
(* Properties of the negotiation                                           *)
(***************************************************************************)
\* whether the j-th response of the call decodes under the call's adapter
Decodes(j) == parse(adapter, exchanges[j].response).ok

\* the correction prompts that were sent to the provider
FixExchanges == {j \in 1..Len(exchanges) : exchanges[j].prompt.kind = "fix"}

\* the positions of an event in the trace
Events(e) == {j \in 1..Len(trace) : trace[j] = e}

\* the call ended having seen only responses that do not decode
AllFailed == /\ pc = "done"
             /\ \A j \in 1..Len(exchanges) : ~Decodes(j)

\* C1: with retry budget N, if responses 1..k-1 fail to decode and response
\* k decodes, 1 <= k <= N, the call returns the value decoded from response
\* k and the log of exchanges has exactly k entries; in particular a call
\* never ends within its budget on a response that did not decode.
C1_FirstSuccessReturned ==
    pc = "done" =>
        /\ \A k \in 1..retry :
              ( /\ k <= Len(exchanges)
                /\ Decodes(k)
                /\ \A j \in 1..(k - 1) : ~Decodes(j) )
              => /\ outcome = "return"
                 /\ result = Value(parse(adapter, exchanges[k].response).value)
                 /\ Len(exchanges) = k
        /\ Len(exchanges) <= retry => Decodes(Len(exchanges))

C1_Witness ==
    /\ pc = "done"
    /\ retry = 3
    /\ Len(exchanges) = 2
    /\ ~Decodes(1)
    /\ Decodes(2)
    /\ result = Value(parse(adapter, exchanges[2].response).value)

\* C2: with a decoder that never succeeds and retry budget N the call ends
\* without a decoded value after exactly N correction prompts, its log of
\* exchanges having N+1 entries.
C2_ExhaustionCounts ==
    AllFailed =>
        /\ Cardinality(FixExchanges) = retry
        /\ Len(exchanges) = retry + 1
        /\ result.kind # "value"

C2_Witness ==
    /\ AllFailed
    /\ retry = 2
    /\ Len(exchanges) = 3

\* C3 (as claimed): when the budget is used up without a successful decode
\* the semantic function ends by raising a ParseError that carries every
\* attempt of the call; it does not return a value.
C3_ParseErrorOnExhaustion ==
    AllFailed =>
        /\ outcome = "raise"
        /\ result = [kind |-> "ParseError", attempts |-> exchanges]

\* C4: every exception raised while decoding is caught and answered with a
\* correction prompt; no decode failure ends the call by propagating.
C4_DecodeFailuresContained ==
    /\ outcome # "raise"
    /\ \A j \in Events("decode_failed") :
          /\ j < Len(trace)
          /\ trace[j + 1] = "fix"

C4_Witness ==
    /\ \E j \in FixExchanges : exchanges[j].prompt.error = "TypeError"
    /\ \E j \in FixExchanges : exchanges[j].prompt.error = "ValueError"
    /\ \E j \in FixExchanges : exchanges[j].prompt.error = "HjsonDecodeError"

\* the event that may follow event e in a call (the empty set: none)
Successors(e) ==
    CASE e \in {"prompt", "fix"} -> {"request"}
      [] e = "request" -> {"response"}
      [] e = "response" -> {"send"}
      [] e = "send" -> {"decode", "decode_failed"}
      [] e = "decode_failed" -> {"fix"}
      [] OTHER -> {}

\* C5: a call is strictly sequential: prompts and provider requests
\* alternate one for one, each response is fed back and decoded before the
\* next prompt is emitted, and every fix prompt is built from the decode of
\* the response to its predecessor.
C5_StrictlySequential ==
    /\ Len(trace) > 0 => trace[1] = "prompt"
    /\ \A j \in 1..(Len(trace) - 1) : trace[j + 1] \in Successors(trace[j])
    /\ Cardinality(Events("request")) \in
          {Cardinality(Events("prompt") \cup Events("fix")),
           Cardinality(Events("prompt") \cup Events("fix")) - 1}
    /\ Len(exchanges) = Cardinality(Events("response"))
    /\ \A j \in FixExchanges :
          /\ j > 1
          /\ exchanges[j].prompt.response = exchanges[j - 1].response
          /\ ~Decodes(j - 1)

C5_Witness ==
    /\ pc = "done"
    /\ Cardinality(Events("fix")) = 2
    /\ Cardinality(Events("request")) = 3
    /\ Cardinality(Events("decode")) = 1

\* C6: a call emits at most N correction prompts, reaches a terminal state
\* after at most N+1 exchanges, and emits nothing once it has ended.
C6_BoundedAndTerminates ==
    /\ [](Cardinality(Events("fix")) <= retry /\ Len(exchanges) <= retry + 1)
    /\ <>(pc = "done" /\ outcome # "pending")
    /\ [][pc = "done" => UNCHANGED <<prompt, exchanges, trace>>]_vars

C6_Witness ==
    /\ pc = "done"
    /\ retry = 2
    /\ Cardinality(Events("fix")) = 2

\* C19: a ThrottleError or BusyError raised while a response is being
\* obtained ends the call at once with that exception: the step leaves the
\* retry counter, the prompt and the exchanges as they were, and nothing
\* follows it.
C19_TransportErrorsPropagate ==
    /\ [][(pc = "await" /\ pc' # "send") =>
            /\ pc' = "done"
            /\ outcome' = "raise"
            /\ result'.error \in {"ThrottleError", "BusyError"}
            /\ i' = i
            /\ prompt' = prompt
            /\ exchanges' = exchanges]_vars
    /\ [](Events("transport_error") # {} =>
            /\ pc = "done"
            /\ trace[Len(trace)] = "raise"
            /\ Events("transport_error") = {Len(trace) - 1})

C19_Witness ==
    /\ pc = "done"
    /\ outcome = "raise"
    /\ result = [kind |-> "error", error |-> "ThrottleError"]
    /\ retry = MaxRetry
    /\ i = 1
    /\ prompt.kind = "fix"
    /\ Len(exchanges) = 1

(***************************************************************************)
(* Properties of the Throttle                                              *)
(***************************************************************************)
\* the requests admitted by the Throttle that have not yet completed
InFlight == {c \in Callers : cpc[c] = "flight"}

\* C7: in every reachable state of the Throttle neither allowance exceeds
\* its configured rate, and neither is negative by more than one admission's
\* debit (in the code an admission never takes an allowance below zero).
C7_AllowancesWithinBounds ==
    /\ token_allowance <= Units(token_rate)
    /\ request_allowance <= Units(request_rate)
    /\ token_allowance >= 0
    /\ request_allowance >= 0

C7_Witness ==
    /\ token_allowance = Units(token_rate)
    /\ request_allowance < Units(request_rate)
    /\ usage.completion_tokens = 1
    /\ now - before >= 1
    /\ InFlight # {}

\* C8: a request of estimated cost c is admitted only when, after
\* replenishment, token_allowance >= c and request_allowance >= 1, and the
\* admitting step debits exactly c tokens and exactly 1 request.
C8_AdmissionDebitsBoth ==
    [][\A c \in Callers :
          (cpc[c] = "poll" /\ cpc'[c] = "flight") =>
              LET dt == now - before
                  ta == Replenished(token_allowance, token_rate, dt)
                  ra == Replenished(request_allowance, request_rate, dt)
              IN /\ ta >= Units(tokens[c])
                 /\ ra >= Units(1)
                 /\ token_allowance' = ta - Units(tokens[c])
                 /\ request_allowance' = ra - Units(1)]_vars

C8_Witness ==
    \E c \in Callers :
        /\ cpc[c] = "flight"
        /\ before = now
        /\ before >= 1
        /\ tokens[c] = 2
        /\ token_allowance = 0
        /\ request_allowance < Units(request_rate)

\* C9 (as claimed): the requests admitted by one Throttle and not yet
\* completed never outnumber the concurrent cap, whichever path admitted
\* them.
C9_ConcurrencyCapped == Cardinality(InFlight) <= concurrent

\* C10 (as claimed): when a request completes, output leaves the bucket
\* debited by the request's actual usage: the estimate debited at admission
\* is replaced by the usage the provider reported.
C10_NetDebitIsActualUsage ==
    [][\A c \in Callers :
          (cpc[c] = "flight" /\ cpc'[c] = "idle") =>
              token_allowance' =
                  Min(Units(token_rate),
                      token_allowance + Units(tokens[c])
                        - Units(tokens[c] + usage'.completion_tokens))]_vars

\* the token_allowance an admission check made now would compute in
\* update_allowance, before it tests and debits
SeenTokenAllowance == Replenished(token_allowance, token_rate, now - before)

\* C11: once at least one period has passed since the last debit, the
\* token_allowance an admission check computes equals token_rate, however
\* many refused checks replenished the bucket in between, and no elapsed
\* time makes it exceed token_rate.
C11_SaturatesAtRate ==
    /\ SeenTokenAllowance <= Units(token_rate)
    /\ token_allowance <= Units(token_rate)
    /\ (now - admitted.at >= period => SeenTokenAllowance = Units(token_rate))

C11_Witness ==
    /\ admitted.at >= 1
    /\ now - admitted.at >= period
    /\ before = now
    /\ token_allowance = Units(token_rate)
    /\ usage.completion_tokens = 0
    /\ \E c \in Callers : cpc[c] = "poll"

\* C12: a request is admitted only when the time elapsed since the previous
\* admission has replenished what that admission left of request_allowance
\* to at least 1; with request_rate = 1 an admission leaves nothing, so the
\* next one comes no sooner than a whole period later.
C12_AdmissionAwaitsRefill ==
    [][\A c \in Callers :
          (cpc[c] = "poll" /\ cpc'[c] = "flight") =>
              /\ admitted.left + (now - admitted.at) * request_rate
                    >= Units(1)
              /\ (request_rate = 1 /\ admitted.left = 0) =>
                    now - admitted.at >= period]_vars

C12_Witness ==
    /\ request_rate = 1
    /\ period = MaxPeriod
    /\ concurrent = 1
    /\ Cardinality(InFlight) = 2
    /\ admitted.left = 0
    /\ admitted.at >= period

\* C14: an admission check replenishes, tests and debits in one step, so
\* when a caller is admitted against allowances that did not cover a
\* second waiting caller as well, that second caller's own check, made at
\* the same instant, finds the allowances insufficient.
C14_CheckIsAtomic ==
    [][\A c, d \in Callers :
          (/\ c # d
           /\ cpc[c] = "poll" /\ cpc'[c] = "flight"
           /\ cpc[d] = "poll"
           /\ LET dt == now - before
                  ta == Replenished(token_allowance, token_rate, dt)
                  ra == Replenished(request_allowance, request_rate, dt)
              IN \/ ta < Units(tokens[c] + tokens[d])
                 \/ ra < Units(2))
          => /\ cpc'[d] = "poll"
             /\ before' = now
             /\ ~Admissible(token_allowance', request_allowance',
                            tokens[d])]_vars

C14_Witness ==
    \E c, d \in Callers :
        /\ cpc[c] = "flight"
        /\ cpc[d] = "poll"
        /\ before = now
        /\ admitted.at = now
        /\ request_allowance >= Units(1)
        /\ token_allowance < Units(tokens[d])
        /\ token_allowance + Units(tokens[c]) >= Units(tokens[d])

(***************************************************************************)
(* Properties of one completion                                            *)
(***************************************************************************)
\* the events of the log, in order
LogEvents == [j \in 1..Len(log) |-> log[j].ev]

\* whether the log has the event
Logged(e) == \E j \in 1..Len(log) : log[j].ev = e

\* the callers that entered `async with self.concurrent` and have not left
SlotHolders ==
    {c \in Callers : path[c] = "alock" /\ cpc[c] \in {"poll", "flight"}}

\* C13: the semaphore's free slots are always the cap less the calls
\* that are inside `async with self.concurrent`; a call that has ended,
\* however it ended (result, end of stream, provider error, cancellation
\* while waiting for the slot, the allowance or the response), holds none.
C13_SlotsReleased ==
    /\ sem = concurrent - Cardinality(SlotHolders)
    /\ (\A c \in Callers : cpc[c] = "idle") => sem = concurrent

C13_Witness ==
    /\ cpc[Client] = "idle"
    /\ Logged("slot")
    /\ Logged("lease")
    /\ Logged("delta")
    /\ Logged("cancel")
    /\ log[Len(log)].ev = "release"
    /\ sem = concurrent

\* the places of the log where the event is
At(e) == {j \in 1..Len(log) : log[j].ev = e}

C18_SignalsNormalised ==
    raised.signal # "none" =>
        /\ raised.signal = "RateLimitError" => raised.error = "ThrottleError"
        /\ raised.signal \in {"ServiceUnavailableError", "TryAgain"} =>
              raised.error = "BusyError"
        /\ raised.signal \notin {"RateLimitError", "ServiceUnavailableError",
                                  "TryAgain"} =>
              /\ raised.error = raised.signal
              /\ raised.error \notin {"ThrottleError", "BusyError"}
        /\ Logged("error")

C18_Witness ==
    /\ raised.path = "lock"
    /\ raised.stream
    /\ raised.signal = "TryAgain"
    /\ raised.error = "BusyError"
    /\ Logged("delta")
    /\ log[Len(log)].ev = "release"

(***************************************************************************)
(* Properties of the registry                                              *)
(***************************************************************************)
\* C15: a lookup asks the providers in the order they were registered,
\* stops at the first that answers yes and returns what the registry holds
\* under that name; when every provider has answered no it raises KeyError,
\* whose message names the configuration's model.
C15_FirstSupporterInOrder ==
    lookup.outcome.kind # "none" =>
        LET asked == lookup.asked
            n == Len(asked)
        IN /\ n \in 1..Len(ProviderNames)
           /\ \A j \in 1..n : asked[j].name = ProviderNames[j]
           /\ \A j \in 1..(n - 1) : asked[j].answer = "no"
           /\ asked[n].answer = "yes" <=> lookup.outcome.kind = "return"
           /\ lookup.outcome.kind = "return" =>
                 lookup.outcome.value = Registered(registry, asked[n].name)
           /\ (n = Len(ProviderNames) /\ asked[n].answer = "no") =>
                 /\ lookup.outcome.kind = "raise"
                 /\ lookup.outcome.model = lookup.config.model
                 /\ lookup.outcome.value =
                      IF lookup.config.model.given = "absent"
                      THEN "KeyError('model')" ELSE "KeyError"

C15_Witness ==
    /\ Len(lookup.asked) = 2
    /\ lookup.asked[1].answer = "no"
    /\ lookup.asked[2].answer = "yes"
    /\ lookup.asked[2].cls = "_gpt4all_loader"
    /\ lookup.outcome.value = "GPT4AllConnector"

\* C16: a provider's module body runs at most once and its catalog is
\* cached at most once, however many lookups ask for them, and the registry
\* keeps exactly one entry per provider name, in the registration order:
\* the loader until the module is imported, the connector from then on.
C16_InitialisedOnce ==
    /\ Len(registry) = Len(ProviderNames)
    /\ \A j \in 1..Len(registry) :
          LET name == ProviderNames[j]
          IN /\ registry[j].name = name
             /\ inits[name] <= 1
             /\ fetched[name] <= 1
             /\ inits[name] = 1 <=> name \in modules
             /\ registry[j].cls =
                  IF name \in modules THEN Connector(name) ELSE Loader(name)
             /\ fetched[name] = 1 <=> catalog[name].set

C16_Witness ==
    /\ inits["openai"] = 1
    /\ fetched["openai"] = 1
    /\ lookup.config.openai_api_key = "None"
    /\ lookup.asked[1].cls = "OpenAIConnector"
    /\ lookup.asked[1].answer = "yes"
    /\ lookup.asked[1].list = "cached"

\* C20: when the lookup that Kernel.__call__ makes ends with the KeyError
\* of find, no semantic function is built: no prompt is built, no lease
\* taken, no request issued, and the lookup was made once.
C20_NotFoundFailsFast ==
    (sf.found.kind = "raise"
        /\ sf.found.value \in {"KeyError", "KeyError('model')"}) =>
        /\ sf.state = "raised"
        /\ sf.lookups = 1
        /\ sf.prompts = 0
        /\ sf.leases = 0
        /\ sf.requests = 0

C20_Witness ==
    /\ sf.state = "raised"
    /\ sf.found.value = "KeyError"
    /\ sf.found.model = Str(<<"my-model">>)
    /\ Len(lookup.asked) = 2
    /\ lookup.asked[2].answer = "no"
    /\ lookup.config = [model |-> Str(<<"my-model">>), openai_api_key |-> "None"]

(***************************************************************************)
(* Properties of the configuration                                         *)
(***************************************************************************)
\* what the layers below the call give an option: the environment's value
\* if the variable holds a text, else the default, as the schema coerces it
ProcessWide(o) ==
    Defined(CONFIG_SCHEMA(o, IF environ[o].given = "text"
                             THEN environ[o].n
                             ELSE defaults_config(o)))

\* the value of the latest layer of the call that defines the option
Latest(o) ==
    IF fn.kwargs[o].defined THEN fn.kwargs[o]
    ELSE IF fn.site[o].defined THEN fn.site[o]
    ELSE ProcessWide(o)

\* C21 (as claimed): for every option the value that reaches the adapter
\* and the connector is that of the latest layer that defines it, an option
\* no later layer defines falling through to the earlier layer; and a
\* kernel given overrides holds the defaults shadowed by them.
C21_LayeredMerge ==
    /\ reached.called =>
          /\ \A o \in Options : reached.config[o] = Latest(o)
          /\ reached.retry = Latest("retry").n
    /\ kernel.made # "none" =>
          /\ kernel.made = "Kernel"
          /\ kernel.own = Merged([o \in Options |-> Defined(defaults_config(o))],
                                 kernel.overrides)

\* whether the number lies in the option's domain
InDomain(o, n) ==
    CASE o = "temperature" -> n >= 0 /\ n <= 2
      [] o = "retry" -> n >= 0
      [] o = "concurrent" -> n >= 1

\* C22 (as claimed): every numeric option of a configuration that reaches
\* an adapter or a connector lies in its domain, whichever layer gave it.
C22_ClampedOnAssembly ==
    reached.called =>
        /\ \A o \in Options : InDomain(o, reached.config[o].n)
        /\ InDomain("retry", reached.retry)

(***************************************************************************)
(* Properties of the calling conventions                                   *)
(***************************************************************************)
\* whether sequence a is the beginning of sequence b
IsPrefix(a, b) == Len(a) <= Len(b) /\ SubSeq(b, 1, Len(a)) = a

\* C23 (as claimed): for the same operation, configuration and provider
\* responses the blocking semantic function does what the suspending one
\* did: the same prompts and provider requests in the same order, obtained
\* the same way, and the same result or error at the end.
C23_ConventionsAgree ==
    mode = "sync" =>
        /\ IsPrefix(trace, twin.trace)
        /\ IsPrefix(exchanges, twin.exchanges)
        /\ pc = "done" =>
              /\ trace = twin.trace
              /\ exchanges = twin.exchanges
              /\ outcome = twin.outcome
              /\ result = twin.result

(***************************************************************************)
(* Properties of the task                                                  *)
(***************************************************************************)
\* C24 (as claimed): the description of the task an adapter builds is the
\* text the operation's body returned for the call's arguments, verbatim,
\* when that is a non-empty text; the operation's doc text when the body
\* returned None or the empty string and a doc is declared; and the
\* origin itself when the origin is a string.
C24_TaskFromBodyDocOrString ==
    built.done =>
        /\ (op.kind = "callable" /\ Truth(op.body[op.args])) =>
              built.description = op.body[op.args]
        /\ (op.kind = "callable" /\ ~Truth(op.body[op.args])
              /\ op.doc.t = "str") =>
              built.description = getdoc(op)
        /\ op.kind = "str" => built.description = op.text

(***************************************************************************)
(* Properties of the chain-of-thought variant                              *)
(***************************************************************************)
\* C25: under ChainOfThoughtAdapter a response whose last line has no
\* `return(...)` marker is a decode failure like any other: the pass of the
\* loop that parses it ends in a fix prompt that embeds the response and
\* the error, uses up one retry and raises nothing; a response whose last
\* line has the marker and whose payload decodes ends the call with the
\* composite of the lines before it and the decoded payload.
C25_MissingMarkerIsDecodeFailure ==
    [][(adapter = "chain" /\ pc = "parse") =>
          LET last == res[Len(res)]
              payload == TypeParse(<<MarkerPayload(last)>>)
          IN /\ ~HasMarker(last) =>
                   /\ pc' = "request"
                   /\ prompt' = fix(res, "ValueError")
                   /\ i' = i + 1
                   /\ outcome' = "pending"
                   /\ trace' = trace \o <<"decode_failed", "fix">>
             /\ (HasMarker(last) /\ ~payload.ok) =>
                   /\ pc' = "request"
                   /\ prompt' = fix(res, payload.error)
                   /\ i' = i + 1
             /\ (HasMarker(last) /\ payload.ok) =>
                   /\ pc' = "done"
                   /\ outcome' = "return"
                   /\ result' = Value([thoughts |-> SubSeq(res, 1, Len(res) - 1),
                                       answer |-> payload.value])]_vars

C25_Witness ==
    /\ adapter = "chain"
    /\ pc = "done"
    /\ Len(exchanges) = 2
    /\ exchanges[1].response = <<"42">>
    /\ exchanges[2].prompt = fix(<<"42">>, "ValueError")
    /\ exchanges[2].response = <<"thought", "return(42)">>
    /\ result = Value([thoughts |-> <<"thought">>,
                       answer |-> [type |-> "int", v |-> "42"]])

(***************************************************************************)
(* Properties of typecast                                                  *)
(***************************************************************************)
\* what each branch of a union makes of the value, in declared order
Branches(v, t) == [j \in 1..Len(t.args) |-> typecast_to(v, t.args[j])]

\* C26 (as claimed): decoding a value against a union returns what the
\* first branch, in declared order, that accepts the value returns, and
\* fails only if every branch fails.
C26_UnionFirstAccepting ==
    (decoded.state # "none" /\ dtype.k = "Union") =>
        LET tried == Branches(dval, dtype)
        IN IF \E j \in 1..Len(tried) : tried[j].state = "ok"
           THEN \E j \in 1..Len(tried) :
                    /\ tried[j].state = "ok"
                    /\ \A h \in 1..(j - 1) : tried[h].state = "raise"
                    /\ decoded = tried[j]
           ELSE decoded.state = "raise"

\* the value already has the shape the annotation declares
RECURSIVE InShape(_, _)
InShape(v, t) ==
    CASE t.k = "Union" -> \E j \in 1..Len(t.args) : InShape(v, t.args[j])
      [] t.k = "Pair" ->
            /\ v.t = "Pair"
            /\ \A j \in 1..Len(v.items) : InShape(v.items[j], Pair_fields[j])
      [] t.k \in {"bool", "int", "float", "str", "NoneType"} /\ t.args = <<>> ->
            v.t = t.k
      [] OTHER -> FALSE

\* a == b in Python: numbers compare by value, everything else by type
\* and content
RECURSIVE PyEq(_, _)
PyEq(a, b) ==
    IF a.t \in {"bool", "int", "float"} /\ b.t \in {"bool", "int", "float"}
    THEN a.n = b.n
    ELSE /\ a.t = b.t
         /\ a.s = b.s
         /\ Len(a.items) = Len(b.items)
         /\ \A j \in 1..Len(a.items) : PyEq(a.items[j], b.items[j])

\* C27 (as claimed): a value already in the shape of a primitive, optional,
\* union or record annotation decodes to a value equal to itself.
C27_RoundTrip ==
    (decoded.state # "none" /\ InShape(dval, dtype)) =>
        (decoded.state = "ok" /\ PyEq(decoded.value, dval))

IsOptional(t) ==
    t.k = "Union" /\ Len(t.args) = 2 /\ t.args[2] = Type("NoneType")

\* C28 (as claimed): against optional(T), None decodes to None and any other
\* value decodes as it does against T.
C28_OptionalIsNoneOrInner ==
    (decoded.state # "none" /\ IsOptional(dtype)) =>
        IF dval = PyNone THEN decoded = Done(PyNone)
        ELSE decoded = typecast_to(dval, dtype.args[1])

\* a number with a fractional part, or a text that spells one
Fractional(v) ==
    \/ v.t = "float" /\ v.n % 10 # 0
    \/ /\ v.t = "str"
       /\ float_literal(v.s).state = "ok"
       /\ float_literal(v.s).value.n % 10 # 0

\* C29 (as claimed): decoding a fractional number or a fractional text
\* against int fails; it never returns a truncated integer.
C29_FractionalIsRejected ==
    (decoded.state # "none" /\ dtype = Type("int") /\ Fractional(dval)) =>
        decoded.state = "raise"

\* C30 (as claimed): against tuple[T1..Tn] a list or tuple of exactly n
\* elements decodes element i against Ti; a sequence of another length and
\* a value that is not a sequence fail.
C30_FixedArityTuple ==
    (decoded.state # "none" /\ dtype.k = "tuple" /\ dtype.args # <<>>) =>
        IF dval.t \in {"list", "tuple"} /\ Len(dval.items) = Len(dtype.args)
        THEN decoded = Gathered("tuple",
                           [j \in 1..Len(dval.items) |->
                               typecast_to(dval.items[j], dtype.args[j])])
        ELSE decoded.state = "raise"

(***************************************************************************)
(* Properties of the last response                                         *)
(***************************************************************************)
\* C31 (as claimed): every response handed to the adapter is decoded before
\* the call ends, the response to the last correction prompt and, with
\* retry 0, the first response included: a call that ends has decoded as
\* many responses as it obtained, and ends with the value of its last
\* response when that response decodes.
C31_EveryResponseDecoded ==
    pc = "done" =>
        /\ Cardinality(Events("decode") \cup Events("decode_failed"))
              = Len(exchanges)
        /\ (Len(exchanges) > 0 /\ Decodes(Len(exchanges))) =>
              /\ outcome = "return"
              /\ result = Value(parse(adapter,
                                      exchanges[Len(exchanges)].response).value)

(***************************************************************************)
(* Properties of the Throttles of the OpenAI connector                     *)
(***************************************************************************)
\* the first completion made with the same key as the j-th
FirstOfKey(j) ==
    CHOOSE k \in 1..j :
        /\ calls[k].key = calls[j].key
        /\ \A g \in 1..(k - 1) : calls[g].key # calls[j].key

\* the first completion whose key has the same hash as the j-th's
FirstOfHash(j) ==
    CHOOSE k \in 1..j :
        /\ hashes[calls[k].key] = hashes[calls[j].key]
        /\ \A g \in 1..(k - 1) :
              hashes[calls[g].key] # hashes[calls[j].key]

\* the Throttle the dict holds for the key of the j-th completion
ThrottleOf(j) == throttles[hashes[calls[j].key]]

Loaders == {Loader(ProviderNames[j]) : j \in 1..Len(ProviderNames)}

\* C33: when the provider that find selects is a lazy loader, whose
\* supports() imported the module that registers the connector under the
\* loader's name, find returns that connector, which the registry now holds
\* under the name; find never returns a loader, so no semantic function is
\* built around a loader's complete().
C33_FindReturnsLoadedConnector ==
    /\ lookup.outcome.kind = "return" =>
          LET last == lookup.asked[Len(lookup.asked)]
          IN /\ lookup.outcome.value \notin Loaders
             /\ last.cls \in Loaders =>
                   /\ last.name \in modules
                   /\ lookup.outcome.value = Connector(last.name)
                   /\ \E j \in 1..Len(registry) :
                         registry[j] = [name |-> last.name,
                                        cls |-> Connector(last.name)]
    /\ sf.state = "built" => sf.found.value \notin Loaders

C33_Witness ==
    /\ lookup.outcome.kind = "return"
    /\ lookup.asked[Len(lookup.asked)].cls = "_openai_loader"
    /\ lookup.outcome.value = "OpenAIConnector"
    /\ sf.state = "built"
    /\ sf.found.value = "OpenAIConnector"

(***************************************************************************)
(* Properties of starvation and progress at the Throttle                   *)
(***************************************************************************)
\* caller c waits for an admission that no replenishment can grant
Starved(c) ==
    /\ cpc[c] = "poll"
    /\ tokens[c] > token_rate \/ request_rate < 1

\* caller d is admitted by the step
Admitted(d) == cpc[d] = "poll" /\ cpc'[d] = "flight"

\* C34 (as claimed): a caller whose estimated cost exceeds token_rate, or
\* whose Throttle has request_rate < 1, is never admitted, and while such a
\* caller waits on the suspending path of a Throttle with concurrent = 1,
\* which it entered by taking the only slot, no other caller of the
\* Throttle is admitted.
C34_StarvedCallerBlocksAll ==
    [][\A c \in Callers :
          Starved(c) =>
              /\ ~Admitted(c)
              /\ (concurrent = 1 /\ path[c] = "alock") =>
                    \A d \in Callers \ {c} : ~Admitted(d)]_vars

\* caller c waits to be admitted
Waiting(c) == cpc[c] \in {"acquire", "poll"}

\* C35 (as claimed): on a Throttle with concurrent = 1, request_rate >= 1
\* and period > 0, when time keeps advancing and every admitted request
\* eventually signals its completion, every caller that waits with an
\* estimated cost of at most token_rate is eventually admitted.
C35_AffordableIsEventuallyAdmitted ==
    \A c \in Callers :
        (Waiting(c) /\ tokens[c] <= token_rate) ~> (cpc[c] = "flight")


\* every caller that waits could be admitted by a full allowance, and waits
\* on the suspending path
AllAffordableSuspended ==
    \A d \in Callers :
        Waiting(d) => tokens[d] <= token_rate /\ path[d] = "alock"

\* C35 (amended): on a Throttle with concurrent = 1, request_rate >= 1 and
\* period > 0, when time keeps advancing, every admitted request eventually
\* signals its completion, no caller waits with an estimated cost above
\* token_rate and no caller makes a blocking call, every caller that waits
\* is eventually admitted.
C35_AffordableSuspendedIsAdmitted ==
    ([]AllAffordableSuspended) => C35_AffordableIsEventuallyAdmitted


\* an affordable caller waits for the only slot while the caller admitted
\* before it is in flight, and the allowance left would not admit it yet
C35_Witness ==
    \E c \in Callers, d \in Callers :
        /\ concurrent = 1
        /\ AllAffordableSuspended
        /\ cpc[c] = "flight" /\ path[c] = "alock"
        /\ cpc[d] = "acquire" /\ tokens[d] >= 1
        /\ ~Admissible(token_allowance, request_allowance, tokens[d])


(***************************************************************************)
(* Properties of a request that fails or is cancelled after its admission  *)
(***************************************************************************)
\* the observed completion was admitted and then ended without a result:
\* the provider call raised, or the caller was cancelled at the request
EndedWithoutResult(l) ==
    /\ Len(l) >= 2
    /\ l[Len(l)].ev = "release"
    /\ l[Len(l) - 1].ev \in {"error", "cancel"}

\* the estimated cost the observed completion was admitted with
Leased(l) == l[CHOOSE j \in 1..Len(l) : l[j].ev = "lease"].n

\* C36: the allowance debited at admission is not refunded when the
\* admitted request then fails or is cancelled: the failure or cancellation
\* changes neither token_allowance nor request_allowance nor the timestamp
\* of the last refill and does not call output, so that after a call or an
\* await that ended so request_allowance is what the admission left and
\* token_allowance is at least the estimated cost below token_rate, until
\* the next admission check replenishes them by the time elapsed.
C36_DebitIsNotRefunded ==
    /\ [](EndedWithoutResult(log) /\ Deltas = 0 =>
             /\ \A j \in 1..Len(log) : log[j].ev # "output"
             /\ request_allowance = admitted.left
             /\ request_allowance <= Units(request_rate) - Units(1)
             /\ token_allowance <= Units(token_rate) - Units(Leased(log)))
    /\ [][cpc[Client] = "flight" /\ cpc'[Client] = "idle"
              /\ EndedWithoutResult(log') =>
             /\ token_allowance' = token_allowance
             /\ request_allowance' = request_allowance
             /\ before' = before
             /\ \A j \in Len(log) + 1..Len(log') : log'[j].ev # "output"]_vars

\* a call admitted from a full allowance has failed, and a full period has
\* passed since without any refund
C36_Witness ==
    /\ EndedWithoutResult(log)
    /\ Deltas = 0
    /\ log[Len(log) - 1].ev = "error"
    /\ Leased(log) >= 1
    /\ token_allowance = Units(token_rate) - Units(Leased(log))
    /\ request_allowance = Units(request_rate) - Units(1)
    /\ now - before >= period


(***************************************************************************)
(* Properties of consecutive admission checks                              *)
(***************************************************************************)
\* what update_allowance reads and writes
Buckets ==
    [ta |-> token_allowance, ra |-> request_allowance, before |-> before]

\* update_allowance at time t on the buckets b
update_allowance(b, t) ==
    [ta |-> Replenished(b.ta, token_rate, t - b.before),
     ra |-> Replenished(b.ra, request_rate, t - b.before),
     before |-> t]

\* the step is an admission check that refuses caller c
Refused(c) == cpc[c] = "poll" /\ before' = now /\ UNCHANGED cpc

\* the times a later check can be made at
Later == now..now + MaxPeriod + 1

\* C37: replenishment composes over polling: a refused admission check
\* leaves the two allowances replenished for the time elapsed and the
\* timestamp at the present, and any check after it then leaves both
\* allowances and the timestamp as that one check alone would have, and
\* decides every request alike.
C37_RefillComposes ==
    [][\A c \in Callers :
          Refused(c) =>
              /\ Buckets' = update_allowance(Buckets, now)
              /\ \A t \in Later :
                    LET twice == update_allowance(Buckets', t)
                        once == update_allowance(Buckets, t)
                    IN /\ twice = once
                       /\ \A n \in Costs :
                             Admissible(twice.ta, twice.ra, n)
                                 <=> Admissible(once.ta, once.ra, n)]_vars

\* a caller was refused after part of a period, and its check kept the part
\* of the allowance that the time elapsed had earned
C37_Witness ==
    \E c \in Callers :
        /\ cpc[c] = "poll"
        /\ before = now
        /\ now > 0
        /\ period > 1
        /\ ~Admissible(token_allowance, request_allowance, tokens[c])
        /\ token_allowance > 0
        /\ token_allowance < Units(token_rate)
        /\ token_allowance % period # 0


(***************************************************************************)
(* Properties of a call whose adapter yields no prompt                     *)
(***************************************************************************)
\* the prompt is absent (None) or the empty string
EmptyOrAbsent(p) == p = None \/ p = [kind |-> "text", lines |-> <<>>]

\* C38: when the first prompt the adapter yields is empty or absent, the
\* closure makes no provider request and returns None, without raising.
C38_NoPromptNoRequest ==
    built.done /\ EmptyOrAbsent(first_prompt(adapter, built)) =>
        /\ pc = "done"
        /\ outcome = "return"
        /\ result = None
        /\ exchanges = <<>>
        /\ \A j \in 1..Len(trace) : trace[j] # "request"

\* the do-nothing adapter was called on an operation whose body returns
\* nothing and that has no docstring, in the suspending closure
C38_Witness ==
    /\ adapter = "task"
    /\ mode = "async"
    /\ op.kind = "callable"
    /\ op.body[op.args] = NoText
    /\ op.doc = NoText
    /\ built.done
    /\ prompt = None
    /\ pc = "done"
    /\ outcome = "return"
    /\ result = None

\* the do-nothing adapter was called on the empty string
C38_WitnessEmpty ==
    /\ adapter = "task"
    /\ op.kind = "str"
    /\ built.done
    /\ prompt = [kind |-> "text", lines |-> <<>>]
    /\ pc = "done"
    /\ outcome = "return"


(***************************************************************************)
(* Properties of the final line of a chain-of-thought response             *)
(***************************************************************************)
\* C39: the chain-of-thought decoder looks for the marker in the final line
\* of the response only: when the final line has it and its payload
\* decodes, every earlier line, marked or not, is in the thoughts of the
\* result, in order and unchanged; when the response is empty or its final
\* line has no marker, whatever the earlier lines hold, decoding fails
\* with a ValueError, which the correction loop answers with a fix prompt.
C39_MarkerInFinalLineOnly ==
    [][pc = "parse" /\ adapter = "chain" =>
          IF Len(res) > 0 /\ HasMarker(res[Len(res)])
          THEN /\ res[Len(res)] = "return(42)" => outcome' = "return"
               /\ outcome' = "return" =>
                     result'.value.thoughts = SubSeq(res, 1, Len(res) - 1)
          ELSE /\ outcome' = "pending"
               /\ prompt' = fix(res, "ValueError")
               /\ trace' = trace \o <<"decode_failed", "fix">>]_vars

\* a response whose only marker is on its first line, a thought after it,
\* was refused and answered with a fix prompt
C39_Witness ==
    /\ adapter = "chain"
    /\ Len(exchanges) = 1
    /\ exchanges[1].response = <<"return(42)", "thought">>
    /\ prompt = fix(<<"return(42)", "thought">>, "ValueError")
    /\ pc = "request"

\* the empty response was refused and answered with a fix prompt
C39_WitnessEmpty ==
    /\ adapter = "chain"
    /\ Len(exchanges) = 1
    /\ exchanges[1].response = <<>>
    /\ prompt = fix(<<>>, "ValueError")
    /\ pc = "request"

\* a marked line before the final marked line has gone into the thoughts
C39_WitnessTrail ==
    /\ adapter = "chain"
    /\ outcome = "return"
    /\ result # None
    /\ result.value.thoughts = <<"return([1)", "thought">>

====
